---- MODULE Spec2Model ----
(***************************************************************************)
(* A model of the Euchre rule engine (package engine): the card model,    *)
(* Deck and Hand, Trick, the Round state machine and the Game that runs   *)
(* a sequence of Rounds.  Suits, ranks, phases and seats are the Go        *)
(* integers; slices are sequences; a Go error is its message, with        *)
(* NoError for nil.                                                        *)
(***************************************************************************)
EXTENDS Integers, Sequences, FiniteSets, TLC

VARIABLES
    argCard,    \* card model: the Card a pure card query is asked about
    argTrump,   \* card model: the trump Suit passed to the query
    out,        \* result of the last pure query ("none" before any)
    hand,       \* a stand-alone Hand (NewHand / NewHandWith), a sequence of Cards
    trick,      \* a stand-alone Trick (NewTrick)
    game,       \* the Game: scores, dealer, roundHistory, ... (NoGame: Round used directly)
    round,      \* the Round (the Game's currentRound; NoRound when nil)
    deck        \* the Deck the Round is dealt from (the Game's deck)

vars == <<argCard, argTrump, out, hand, trick, game, round, deck>>

(***************************************************************************)
(* card.go: suits, ranks, cards                                            *)
(***************************************************************************)
Clubs == 0
Diamonds == 1
Hearts == 2
Spades == 3
NoSuit == 4

Nine == 0
Ten == 1
Jack == 2
Queen == 3
King == 4
Ace == 5
Joker == 6

Suits == {Clubs, Diamonds, Hearts, Spades}
AllSuits == Suits \cup {NoSuit}
Ranks == {Nine, Ten, Jack, Queen, King, Ace}

NewCard(suit, rank) == [Suit |-> suit, Rank |-> rank]

\* the 24 cards of NewStandardDeck, as a set
StandardCards == {NewCard(s, r) : s \in Suits, r \in Ranks}
\* the card NewBritishDeck adds
JokerCard == NewCard(NoSuit, Joker)
AllCards == StandardCards \cup {JokerCard}

SameColor(s, other) ==
    IF s = NoSuit \/ other = NoSuit
    THEN FALSE
    ELSE (s = Clubs \/ s = Spades) = (other = Clubs \/ other = Spades)

Color(s) ==
    CASE s = Clubs \/ s = Spades -> "black"
      [] s = Diamonds \/ s = Hearts -> "red"
      [] OTHER -> ""

IsJoker(c) == c.Rank = Joker

IsRightBower(c, t) == c.Rank = Jack /\ c.Suit = t

\* IsLeftBower with the colour test left out: every Jack off the trump suit
\* would be a left bower (a fault C1_BowersAndTrump detects)
IsLeftBower_AnyJack(c, t) == c.Rank = Jack /\ c.Suit # t

IsLeftBower(c, t) ==
    IF c.Rank # Jack
    THEN FALSE
    ELSE c.Suit # t /\ SameColor(c.Suit, t)

IsBower(c, t) == IsRightBower(c, t) \/ IsLeftBower(c, t)

EffectiveSuit(c, t) == IF IsLeftBower(c, t) THEN t ELSE c.Suit

IsTrump(c, t) == IF IsJoker(c) THEN TRUE ELSE EffectiveSuit(c, t) = t

\* TrumpValue with the two bowers' values exchanged (a fault C5_ValueOrders
\* detects)
TrumpValue_BowersSwapped(c, t) ==
    IF ~IsTrump(c, t) THEN 0
    ELSE IF IsJoker(c) THEN 100
    ELSE IF IsRightBower(c, t) THEN 80
    ELSE IF IsLeftBower(c, t) THEN 90
    ELSE CASE c.Rank = Ace -> 70
           [] c.Rank = King -> 60
           [] c.Rank = Queen -> 50
           [] c.Rank = Ten -> 40
           [] c.Rank = Nine -> 30
           [] OTHER -> 0

TrumpValue(c, t) ==
    IF ~IsTrump(c, t) THEN 0
    ELSE IF IsJoker(c) THEN 100
    ELSE IF IsRightBower(c, t) THEN 90
    ELSE IF IsLeftBower(c, t) THEN 80
    ELSE CASE c.Rank = Ace -> 70
           [] c.Rank = King -> 60
           [] c.Rank = Queen -> 50
           [] c.Rank = Ten -> 40
           [] c.Rank = Nine -> 30
           [] OTHER -> 0

OffSuitValue(c) ==
    CASE c.Rank = Ace -> 60
      [] c.Rank = King -> 50
      [] c.Rank = Queen -> 40
      [] c.Rank = Jack -> 30
      [] c.Rank = Ten -> 20
      [] c.Rank = Nine -> 10
      [] OTHER -> 0

(***************************************************************************)
(* deck.go: Hand (a slice of Cards, in insertion order)                    *)
(***************************************************************************)
NewHand == <<>>

HandSize(h) == Len(h)

HandAdd(h, c) == Append(h, c)

HandContains(h, c) == \E i \in 1..Len(h) : h[i].Suit = c.Suit /\ h[i].Rank = c.Rank

\* index of the first card equal to c, 0 when there is none
HandIndexOf(h, c) ==
    IF HandContains(h, c)
    THEN CHOOSE i \in 1..Len(h) :
            /\ h[i].Suit = c.Suit /\ h[i].Rank = c.Rank
            /\ \A j \in 1..(i - 1) : ~(h[j].Suit = c.Suit /\ h[j].Rank = c.Rank)
    ELSE 0

\* Hand.Remove: drops the first card equal to c; removed is the returned bool
HandRemove(h, c) ==
    LET i == HandIndexOf(h, c) IN
    IF i = 0
    THEN [cards |-> h, removed |-> FALSE]
    ELSE [cards |-> SubSeq(h, 1, i - 1) \o SubSeq(h, i + 1, Len(h)), removed |-> TRUE]

HasSuit(h, suit, t) == \E i \in 1..Len(h) : EffectiveSuit(h[i], t) = suit

RECURSIVE CardsOfSuit(_, _, _)
CardsOfSuit(h, suit, t) ==
    IF h = <<>> THEN <<>>
    ELSE IF EffectiveSuit(Head(h), t) = suit
         THEN <<Head(h)>> \o CardsOfSuit(Tail(h), suit, t)
         ELSE CardsOfSuit(Tail(h), suit, t)

(***************************************************************************)
(* Trick: the plays of one trick, its lead suit and the trump in effect    *)
(***************************************************************************)
\* leadSuit is not set by NewTrick: it holds Suit's zero value
NewTrick(t) == [cards |-> <<>>, leadSuit |-> Clubs, trump |-> t]

\* Trick.Play that takes the lead suit from every card played, not only the
\* first (a fault C26_TrickShape detects)
TrickPlay_EveryCardLeads(t, player, card) ==
    [t EXCEPT !.cards = Append(t.cards, [Player |-> player, Card |-> card]),
              !.leadSuit = EffectiveSuit(card, t.trump)]

TrickPlay(t, player, card) ==
    LET cards == Append(t.cards, [Player |-> player, Card |-> card]) IN
    [t EXCEPT !.cards = cards,
              !.leadSuit = IF Len(cards) = 1 THEN EffectiveSuit(card, t.trump) ELSE @]

TrickSize(t) == Len(t.cards)

IsComplete(t, playerCount) == Len(t.cards) >= playerCount

LeadSuit(t) == t.leadSuit

Leader(t) == IF Len(t.cards) = 0 THEN -1 ELSE t.cards[1].Player

\* cardValue that scores every non-trump card by its rank, of the lead suit or
\* not (a fault C4_WinnerIsMaximum detects)
cardValue_AnySuit(t, card) ==
    IF IsTrump(card, t.trump) THEN 1000 + TrumpValue(card, t.trump)
    ELSE 100 + OffSuitValue(card)

cardValue(t, card) ==
    IF IsTrump(card, t.trump) THEN 1000 + TrumpValue(card, t.trump)
    ELSE IF EffectiveSuit(card, t.trump) = t.leadSuit THEN 100 + OffSuitValue(card)
    ELSE 0

\* the loop shared by Winner and WinningCard: the index of the play that is winning
WinningIndex(t) ==
    LET best[i \in 1..Len(t.cards)] ==
            IF i = 1 THEN 1
            ELSE IF cardValue(t, t.cards[i].Card) > cardValue(t, t.cards[best[i - 1]].Card)
                 THEN i
                 ELSE best[i - 1]
    IN best[Len(t.cards)]

Winner(t) == IF Len(t.cards) = 0 THEN -1 ELSE t.cards[WinningIndex(t)].Player

WinningCard(t) ==
    IF Len(t.cards) = 0
    THEN [card |-> NewCard(Clubs, Nine), ok |-> FALSE]
    ELSE [card |-> t.cards[WinningIndex(t)].Card, ok |-> TRUE]

\* CanBeat that compares the card with the card led, not with the card that is
\* winning (a fault C28_CanBeatAgrees detects)
CanBeat_AgainstLead(t, card) ==
    IF Len(t.cards) = 0 THEN TRUE
    ELSE cardValue(t, card) > cardValue(t, t.cards[1].Card)

CanBeat(t, card) ==
    IF Len(t.cards) = 0 THEN TRUE
    ELSE cardValue(t, card) > cardValue(t, WinningCard(t).card)

MustFollowSuit(t) == IF Len(t.cards) = 0 THEN NoSuit ELSE t.leadSuit

TrickClear(t) == [t EXCEPT !.cards = <<>>, !.leadSuit = NoSuit]

\* Trick.Result, given the value winner of Winner()
TrickResultOf(t, winner) ==
    [Winner |-> winner, Cards |-> t.cards, LeadSuit |-> t.leadSuit, Trump |-> t.trump,
     WasTrumped |-> IF winner >= 0 /\ Len(t.cards) > 0
                    THEN IsTrump(WinningCard(t).card, t.trump) /\ t.leadSuit # t.trump
                    ELSE FALSE]

TrickResult(t) == TrickResultOf(t, Winner(t))

NoError == "nil"
ErrCardNotInHand == "card not in hand"
ErrMustFollowSuit == "must follow suit if able"
ErrNotYourTurn == "not your turn"

\* ValidatePlay that compares the played card's printed suit with the lead suit
\* (a fault C3_ValidatePlay detects)
ValidatePlay_PrintedSuit(h, card, t) ==
    IF ~HandContains(h, card) THEN ErrCardNotInHand
    ELSE IF TrickSize(t) = 0 THEN NoError
    ELSE IF HasSuit(h, LeadSuit(t), t.trump) /\ card.Suit # LeadSuit(t)
         THEN ErrMustFollowSuit
         ELSE NoError

\* ValidatePlay that only tests that the card is held (a fault C38_PlaysAgree
\* detects)
ValidatePlay_HeldOnly(h, card, t) ==
    IF ~HandContains(h, card) THEN ErrCardNotInHand ELSE NoError

ValidatePlay(h, card, t) ==
    IF ~HandContains(h, card) THEN ErrCardNotInHand
    ELSE IF TrickSize(t) = 0 THEN NoError
    ELSE IF HasSuit(h, LeadSuit(t), t.trump) /\ EffectiveSuit(card, t.trump) # LeadSuit(t)
         THEN ErrMustFollowSuit
         ELSE NoError

\* LegalPlays that selects the cards to follow with by their printed suit (a
\* fault C2_LegalPlays detects)
LegalPlays_PrintedSuit(h, t) ==
    IF TrickSize(t) = 0 THEN h
    ELSE LET suitCards == SelectSeq(h, LAMBDA c : c.Suit = LeadSuit(t)) IN
         IF Len(suitCards) > 0 THEN suitCards ELSE h

LegalPlays(h, t) ==
    IF TrickSize(t) = 0 THEN h
    ELSE LET suitCards == CardsOfSuit(h, LeadSuit(t), t.trump) IN
         IF Len(suitCards) > 0 THEN suitCards ELSE h

(***************************************************************************)
(* Values of the variables a specification does not use                    *)
(***************************************************************************)
Unused == [unused |-> TRUE]
NoGame == [unused |-> TRUE]
\* a nil *Round
NoRound == [nil |-> TRUE]
NoOut == [op |-> "none"]

(***************************************************************************)
(* CardSpec: the pure queries of the card model, asked of every Card value *)
(* (the 24 standard cards and the Joker) under every Suit value            *)
(***************************************************************************)
CardInit ==
    /\ argCard \in AllCards
    /\ argTrump \in AllSuits
    /\ out = NoOut
    /\ hand = Unused /\ trick = Unused
    /\ game = NoGame /\ round = NoRound /\ deck = Unused

CardQueries ==
    /\ out = NoOut
    /\ out' = [op |-> "card", IsRightBower |-> IsRightBower(argCard, argTrump),
               IsLeftBower |-> IsLeftBower(argCard, argTrump),
               EffectiveSuit |-> EffectiveSuit(argCard, argTrump),
               IsTrump |-> IsTrump(argCard, argTrump),
               TrumpValue |-> TrumpValue(argCard, argTrump),
               OffSuitValue |-> OffSuitValue(argCard)]
    /\ UNCHANGED <<argCard, argTrump, hand, trick, game, round, deck>>

CardNext == CardQueries

CardSpec == CardInit /\ [][CardNext]_vars

\* what the claims call the left bower: a Jack of the other suit of trump's colour
LeftBowerByColour(c, t) ==
    c.Rank = Jack /\ c.Suit # t /\ Color(c.Suit) = Color(t) /\ Color(t) # ""

C1_Statement(c, t, o) ==
    /\ o.IsRightBower <=> (c.Rank = Jack /\ c.Suit = t)
    /\ o.IsLeftBower <=> LeftBowerByColour(c, t)
    /\ o.EffectiveSuit = (IF LeftBowerByColour(c, t) THEN t ELSE c.Suit)
    /\ o.IsTrump <=> (o.EffectiveSuit = t)

\* C1 as stated: for every trump suit T of the four and every card c, IsRightBower
\* iff c is the Jack of T, IsLeftBower iff c is the other Jack of T's colour,
\* EffectiveSuit is T for the left bower and the printed suit otherwise, and
\* IsTrump iff EffectiveSuit = T.  (Fails for the Joker.)
C1_Original ==
    (out.op = "card" /\ argTrump \in Suits) => C1_Statement(argCard, argTrump, out)

\* C1 amended: the statement holds for every card of rank Nine..Ace; the Joker is
\* no bower, keeps its printed suit NoSuit, and IsTrump is true of it whatever the
\* trump, although its effective suit is not trump.
C1_BowersAndTrump ==
    (out.op = "card" /\ argTrump \in Suits) =>
        /\ argCard \in StandardCards => C1_Statement(argCard, argTrump, out)
        /\ argCard = JokerCard =>
              /\ ~out.IsRightBower /\ ~out.IsLeftBower
              /\ out.EffectiveSuit = NoSuit
              /\ out.IsTrump

\* C1 witness: the Jack of Diamonds queried under Hearts is the left bower
C1_Witness ==
    /\ out.op = "card"
    /\ argCard = NewCard(Diamonds, Jack) /\ argTrump = Hearts
    /\ out.IsLeftBower /\ ~out.IsRightBower
    /\ out.EffectiveSuit = Hearts /\ out.IsTrump

\* the claims' order of the seven trump cards, 7 (right bower) down to 1 (Nine)
TrumpOrder(c, t) ==
    IF c.Rank = Jack /\ c.Suit = t THEN 7
    ELSE IF LeftBowerByColour(c, t) THEN 6
    ELSE CASE c.Rank = Ace -> 5
           [] c.Rank = King -> 4
           [] c.Rank = Queen -> 3
           [] c.Rank = Ten -> 2
           [] OTHER -> 1

InTrumpSuit(c, t) == c.Suit = t \/ LeftBowerByColour(c, t)

\* Ace > King > Queen > Jack > Ten > Nine
RankOrder(c) ==
    CASE c.Rank = Ace -> 6
      [] c.Rank = King -> 5
      [] c.Rank = Queen -> 4
      [] c.Rank = Jack -> 3
      [] c.Rank = Ten -> 2
      [] OTHER -> 1

\* C5: for every trump suit T, TrumpValue is 0 for every card that is not trump, and
\* two trump cards compare by TrumpValue exactly as right bower > left bower > Ace >
\* King > Queen > Ten > Nine; OffSuitValue compares two cards exactly as their ranks
\* Ace > King > Queen > Jack > Ten > Nine, whatever the trump.
C5_ValueOrders ==
    (out.op = "card" /\ argTrump \in Suits /\ argCard \in StandardCards) =>
        /\ ~InTrumpSuit(argCard, argTrump) => out.TrumpValue = 0
        /\ InTrumpSuit(argCard, argTrump) => out.TrumpValue > 0
        /\ \A d \in StandardCards :
              /\ (InTrumpSuit(argCard, argTrump) /\ InTrumpSuit(d, argTrump)) =>
                    ((out.TrumpValue > TrumpValue(d, argTrump))
                        <=> (TrumpOrder(argCard, argTrump) > TrumpOrder(d, argTrump)))
              /\ (out.OffSuitValue > OffSuitValue(d)) <=> (RankOrder(argCard) > RankOrder(d))

\* C5 witness: the left bower has been valued, between the right bower and the Ace
C5_Witness ==
    /\ out.op = "card"
    /\ argCard = NewCard(Clubs, Jack) /\ argTrump = Spades
    /\ out.TrumpValue < TrumpValue(NewCard(Spades, Jack), Spades)
    /\ out.TrumpValue > TrumpValue(NewCard(Spades, Ace), Spades)
    /\ out.OffSuitValue < OffSuitValue(NewCard(Spades, Queen))

(***************************************************************************)
(* Seats (interfaces.go)                                                   *)
(***************************************************************************)
NumPlayers == 4
Seats == 0..(NumPlayers - 1)

Team(playerIdx) == playerIdx % 2

Partner(playerIdx) == (playerIdx + 2) % 4

NextPlayer(current, numPlayers) == (current + 1) % numPlayers

(***************************************************************************)
(* TrickSpec: a stand-alone Trick, built by NewTrick, Play and Clear.      *)
(* Cards are drawn from the ranks TrickRanks of every suit and the Joker,  *)
(* no card twice; a trick holds at most MaxPlays plays, in clockwise seat  *)
(* order from any leader.                                                  *)
(***************************************************************************)
MaxPlays == 3
TrickRanks == {Nine, Jack, Ace}
TrickCards == {NewCard(s, r) : s \in Suits, r \in TrickRanks} \cup {JokerCard}

TrickInit ==
    /\ trick \in {NewTrick(t) : t \in AllSuits}
    /\ hand = Unused /\ out = NoOut
    /\ argCard = Unused /\ argTrump = Unused
    /\ game = NoGame /\ round = NoRound /\ deck = Unused

TrickPlayStep ==
    \E p \in Seats, c \in TrickCards :
        /\ TrickSize(trick) < MaxPlays
        /\ TrickSize(trick) > 0 =>
              p = NextPlayer(trick.cards[Len(trick.cards)].Player, NumPlayers)
        /\ \A i \in 1..Len(trick.cards) : trick.cards[i].Card # c
        /\ trick' = TrickPlay(trick, p, c)
        /\ UNCHANGED <<argCard, argTrump, out, hand, game, round, deck>>

TrickClearStep ==
    /\ TrickSize(trick) > 0
    /\ trick' = TrickClear(trick)
    /\ UNCHANGED <<argCard, argTrump, out, hand, game, round, deck>>

TrickNext == TrickPlayStep \/ TrickClearStep

TrickSpec == TrickInit /\ [][TrickNext]_vars

\* the claims' effective suit, from the colour rule
EffectiveByColour(c, t) == IF LeftBowerByColour(c, t) THEN t ELSE c.Suit

\* C4's ordering: a beats b in a trick led in suit lead under trump t
ClaimBeats(a, b, lead, t) ==
    \/ IsTrump(a, t) /\ ~IsTrump(b, t)
    \/ IsTrump(a, t) /\ IsTrump(b, t) /\ TrumpValue(a, t) > TrumpValue(b, t)
    \/ /\ ~IsTrump(a, t) /\ ~IsTrump(b, t)
       /\ EffectiveByColour(a, t) = lead
       /\ EffectiveByColour(b, t) # lead \/ OffSuitValue(a) > OffSuitValue(b)

\* C4: Winner() of an empty trick is -1; of a non-empty trick of distinct cards it is
\* the seat of the one card that beats every other card of the trick, where trump
\* beats non-trump, trump cards compare by TrumpValue, non-trump cards win only in
\* the lead suit and compare by OffSuitValue; the winning card is trump or lead suit.
C4_WinnerIsMaximum ==
    trick # Unused =>
        LET n == Len(trick.cards)
            t == trick.trump
            lead == IF n = 0 THEN NoSuit ELSE EffectiveByColour(trick.cards[1].Card, t)
            Top(i) == \A j \in 1..n : j # i =>
                          ClaimBeats(trick.cards[i].Card, trick.cards[j].Card, lead, t)
        IN  /\ n = 0 => Winner(trick) = -1
            /\ n > 0 =>
                  /\ Cardinality({i \in 1..n : Top(i)}) = 1
                  /\ \A i \in 1..n : Top(i) =>
                        /\ Winner(trick) = trick.cards[i].Player
                        /\ \/ IsTrump(trick.cards[i].Card, t)
                           \/ EffectiveByColour(trick.cards[i].Card, t) = lead

\* C4 witness (scenario B): under Hearts, right bower, left bower and Ace of trump
\* were played by seats 1, 2, 3 and seat 1 is winning
C4_Witness ==
    /\ trick # Unused
    /\ trick.trump = Hearts
    /\ trick.cards = << [Player |-> 1, Card |-> NewCard(Hearts, Jack)],
                        [Player |-> 2, Card |-> NewCard(Diamonds, Jack)],
                        [Player |-> 3, Card |-> NewCard(Hearts, Ace)] >>
    /\ Winner(trick) = 1

(***************************************************************************)
(* PlaySpec: ValidatePlay and LegalPlays asked of a stand-alone Hand (at    *)
(* most MaxHand cards of ranks HandRanks, added one by one) and a Trick    *)
(* that is empty or holds its lead.                                        *)
(***************************************************************************)
MaxHand == 2
HandRanks == {Nine, Jack}
HandCards == {NewCard(s, r) : s \in Suits, r \in HandRanks}

PlayInit ==
    /\ hand = NewHand
    /\ trick \in {NewTrick(t) : t \in AllSuits}
    /\ out = NoOut
    /\ argCard = Unused /\ argTrump = Unused
    /\ game = NoGame /\ round = NoRound /\ deck = Unused

PlayHandAdd ==
    \E c \in HandCards :
        /\ out = NoOut
        /\ HandSize(hand) < MaxHand
        /\ hand' = HandAdd(hand, c)
        /\ UNCHANGED <<argCard, argTrump, out, trick, game, round, deck>>

\* seat 0 leads a card to the empty trick
PlayLead ==
    \E c \in HandCards :
        /\ out = NoOut
        /\ TrickSize(trick) = 0
        /\ trick' = TrickPlay(trick, 0, c)
        /\ UNCHANGED <<argCard, argTrump, out, hand, game, round, deck>>

QueryLegalPlays ==
    /\ out = NoOut
    /\ out' = [op |-> "LegalPlays", val |-> LegalPlays(hand, trick)]
    /\ UNCHANGED <<argCard, argTrump, hand, trick, game, round, deck>>

QueryValidatePlay ==
    \E c \in HandCards :
        /\ out = NoOut
        /\ out' = [op |-> "ValidatePlay", card |-> c, val |-> ValidatePlay(hand, c, trick)]
        /\ UNCHANGED <<argCard, argTrump, hand, trick, game, round, deck>>

PlayNext == PlayHandAdd \/ PlayLead \/ QueryLegalPlays \/ QueryValidatePlay

PlaySpec == PlayInit /\ [][PlayNext]_vars

\* the lead suit the claims speak of: the effective suit of the trick's first card
ClaimLead(t) == EffectiveByColour(t.cards[1].Card, t.trump)

Holds(h, suit, t) == \E i \in 1..Len(h) : EffectiveByColour(h[i], t) = suit

\* C2: LegalPlays of an empty trick is the whole hand; of a trick led in suit S, when
\* the hand holds a card of effective suit S, exactly the hand's cards of effective
\* suit S (in hand order), and otherwise the whole hand.
C2_LegalPlays ==
    out.op = "LegalPlays" =>
        IF TrickSize(trick) = 0 THEN out.val = hand
        ELSE LET S == ClaimLead(trick)
                 T == trick.trump
             IN IF Holds(hand, S, T)
                THEN out.val = SelectSeq(hand, LAMBDA c : EffectiveByColour(c, T) = S)
                ELSE out.val = hand

\* C2 witness: Hearts are trump and led; of a hand of the left bower (Jack of Diamonds)
\* and the Nine of Diamonds only the left bower is legal
C2_Witness ==
    /\ out.op = "LegalPlays"
    /\ trick.trump = Hearts /\ TrickSize(trick) = 1
    /\ trick.cards[1].Card = NewCard(Hearts, Nine)
    /\ hand = <<NewCard(Diamonds, Jack), NewCard(Diamonds, Nine)>>
    /\ out.val = <<NewCard(Diamonds, Jack)>>

\* C3: ValidatePlay returns CardNotInHand when the card is not in the hand, whatever
\* the trick; otherwise MustFollowSuit iff the trick is non-empty, the hand holds a
\* card of the lead suit and the card's effective suit is not the lead suit;
\* otherwise no error.
C3_ValidatePlay ==
    out.op = "ValidatePlay" =>
        LET held == \E i \in 1..Len(hand) : hand[i] = out.card
            mustFollow ==
                /\ TrickSize(trick) > 0
                /\ Holds(hand, ClaimLead(trick), trick.trump)
                /\ EffectiveByColour(out.card, trick.trump) # ClaimLead(trick)
        IN  /\ ~held => out.val = ErrCardNotInHand
            /\ held => (out.val = ErrMustFollowSuit <=> mustFollow)
            /\ (held /\ ~mustFollow) => out.val = NoError

\* C3 witness: Hearts trump and led, the hand holds the left bower, and playing its
\* Nine of Spades was refused with MustFollowSuit
C3_Witness ==
    /\ out.op = "ValidatePlay"
    /\ trick.trump = Hearts /\ TrickSize(trick) = 1
    /\ trick.cards[1].Card = NewCard(Hearts, Nine)
    /\ hand = <<NewCard(Diamonds, Jack), NewCard(Spades, Nine)>>
    /\ out.card = NewCard(Spades, Nine)
    /\ out.val = ErrMustFollowSuit

(***************************************************************************)
(* interfaces.go: phases and actions                                       *)
(***************************************************************************)
PhaseDeal == 0
PhaseBidRound1 == 1
PhaseBidRound2 == 2
PhaseDiscard == 3
PhasePlay == 4
PhaseTrickEnd == 5
PhaseRoundEnd == 6
PhaseGameEnd == 7

ActionPass == 0
ActionOrderUp == 1
ActionCallTrump == 2
ActionDiscard == 5
ActionPlayCard == 6

PassAction(p) == [type |-> ActionPass, PlayerIdx |-> p]
OrderUpAction(p, alone) == [type |-> ActionOrderUp, PlayerIdx |-> p, Alone |-> alone]
CallTrumpAction(p, suit, alone) ==
    [type |-> ActionCallTrump, PlayerIdx |-> p, Suit |-> suit, Alone |-> alone]
DiscardAction(p, card) == [type |-> ActionDiscard, PlayerIdx |-> p, Card |-> card]
PlayCardAction(p, card) == [type |-> ActionPlayCard, PlayerIdx |-> p, Card |-> card]

(***************************************************************************)
(* deck.go: Deck (a slice of Cards; the top of the deck is its end)        *)
(***************************************************************************)
\* NewStandardDeck: suit by suit, ranks Nine..Ace within each
NewStandardDeck ==
    [i \in 1..24 |-> NewCard((i - 1) \div 6, (i - 1) % 6)]

NewBritishDeck == Append(NewStandardDeck, JokerCard)

\* Deck.Draw: the top card, or ok = FALSE and the zero Card when the deck is empty
Draw(d) ==
    IF Len(d) = 0
    THEN [card |-> NewCard(Clubs, Nine), ok |-> FALSE, deck |-> d]
    ELSE [card |-> d[Len(d)], ok |-> TRUE, deck |-> SubSeq(d, 1, Len(d) - 1)]

\* Deck.DrawN: the top n cards in deck order, fewer when the deck is short
DrawN(d, n) ==
    LET m == IF n > Len(d) THEN Len(d) ELSE n IN
    IF m <= 0
    THEN [cards |-> <<>>, deck |-> d]
    ELSE [cards |-> SubSeq(d, Len(d) - m + 1, Len(d)), deck |-> SubSeq(d, 1, Len(d) - m)]

\* Deck.Shuffle draws a permutation at random; the model draws it from
\* NumShuffles fixed permutations: the k-th reads the deck in steps of stride k
NumShuffles == 1
ShuffleStrides == <<7, 11, 13, 17, 19, 23>>
Shuffle(d, k) ==
    [i \in 1..Len(d) |-> d[(((i - 1) * ShuffleStrides[k] + k) % Len(d)) + 1]]

(***************************************************************************)
(* Round                                                                   *)
(***************************************************************************)
\* a nil *Trick
NoTrick == [nil |-> TRUE]
IsNil(x) == "nil" \in DOMAIN x

NewRound(numPlayers, dealer) ==
    [numPlayers |-> numPlayers,
     dealer |-> dealer,
     phase |-> PhaseDeal,
     trump |-> NoSuit,
     turnedCard |-> NewCard(Clubs, Nine),
     maker |-> -1,
     makerTeam |-> -1,
     alone |-> FALSE,
     aloneDefender |-> -1,
     bidRound |-> 0,
     currentBidder |-> 0,
     hands |-> [i \in 0..(numPlayers - 1) |-> NewHand],
     currentTrick |-> NoTrick,
     tricksWon |-> [i \in 0..(numPlayers - 1) |-> 0],
     trickHistory |-> <<>>]

\* a pass of Deal that starts with the dealer instead of the seat to its left (a
\* fault C24_Deal detects)
RECURSIVE DealPass_FromDealer(_, _, _, _)
DealPass_FromDealer(st, i, n, r) ==
    IF i >= r.numPlayers THEN st
    ELSE LET playerIdx == (r.dealer + i) % r.numPlayers
             got == DrawN(st.deck, n)
         IN DealPass_FromDealer([hands |-> [st.hands EXCEPT ![playerIdx] = @ \o got.cards],
                                 deck |-> got.deck], i + 1, n, r)

\* one pass of Deal round the table: n cards to each seat, from the dealer's left
RECURSIVE DealPass(_, _, _, _)
DealPass(st, i, n, r) ==
    IF i >= r.numPlayers THEN st
    ELSE LET playerIdx == NextPlayer(r.dealer + i, r.numPlayers)
             got == DrawN(st.deck, n)
         IN DealPass([hands |-> [st.hands EXCEPT ![playerIdx] = @ \o got.cards],
                      deck |-> got.deck], i + 1, n, r)

\* the end of Round.Deal: hands are the dealt hands, turned is what Draw returned
DealTurnUp(r, hands, turned) ==
    [r |-> [r EXCEPT !.hands = hands,
                     !.turnedCard = IF turned.ok THEN turned.card ELSE @,
                     !.phase = PhaseBidRound1,
                     !.bidRound = 1,
                     !.currentBidder = NextPlayer(r.dealer, r.numPlayers)],
     deck |-> turned.deck]

DealDealt(r, dealt) == DealTurnUp(r, dealt.hands, Draw(dealt.deck))

\* Round.Deal on a deck that Shuffle left in the order d: 3 cards each, then 2
Deal(r, d) ==
    DealDealt(r, DealPass(DealPass([hands |-> r.hands, deck |-> d], 0, 3, r), 0, 2, r))

\* isSittingOut that never reports a seat as sitting out (a fault C16_TurnOrder
\* detects)
isSittingOut_Never(r, playerIdx) == FALSE

isSittingOut(r, playerIdx) ==
    IF ~r.alone THEN FALSE ELSE playerIdx = Partner(r.maker)

\* findFirstLeader that returns the seat left of the dealer even when it sits
\* out (a fault C30_PartnerSitsOut detects)
findFirstLeader_LeftOfDealer(r) == NextPlayer(r.dealer, r.numPlayers)

findFirstLeader(r) ==
    LET seat(i) == (r.dealer + 1 + i) % r.numPlayers
        ok == {i \in 0..(r.numPlayers - 1) : ~isSittingOut(r, seat(i))}
    IN IF ok = {} THEN NextPlayer(r.dealer, r.numPlayers)
       ELSE seat(CHOOSE i \in ok : \A j \in ok : i <= j)

nextToPlay(r) ==
    IF IsNil(r.currentTrick) THEN -1
    ELSE LET leader == Leader(r.currentTrick) IN
         IF leader < 0 THEN findFirstLeader(r)
         ELSE LET played == {r.currentTrick.cards[i].Player :
                                 i \in 1..Len(r.currentTrick.cards)}
                  seat(i) == (leader + i) % r.numPlayers
                  ok == {i \in 0..(r.numPlayers - 1) :
                             seat(i) \notin played /\ ~isSittingOut(r, seat(i))}
              IN IF ok = {} THEN -1
                 ELSE seat(CHOOSE i \in ok : \A j \in ok : i <= j)

\* CurrentPlayer that puts nobody on turn in the Discard phase (a fault
\* C33_NoDeadlock detects)
CurrentPlayer_NoneInDiscard(r) ==
    CASE r.phase = PhaseBidRound1 \/ r.phase = PhaseBidRound2 -> r.currentBidder
      [] r.phase = PhasePlay ->
            IF IsNil(r.currentTrick) \/ TrickSize(r.currentTrick) = 0
            THEN IF Len(r.trickHistory) = 0
                 THEN findFirstLeader(r)
                 ELSE r.trickHistory[Len(r.trickHistory)].Winner
            ELSE nextToPlay(r)
      [] OTHER -> -1

CurrentPlayer(r) ==
    CASE r.phase = PhaseBidRound1 \/ r.phase = PhaseBidRound2 -> r.currentBidder
      [] r.phase = PhaseDiscard -> r.dealer
      [] r.phase = PhasePlay ->
            IF IsNil(r.currentTrick) \/ TrickSize(r.currentTrick) = 0
            THEN IF Len(r.trickHistory) = 0
                 THEN findFirstLeader(r)
                 ELSE r.trickHistory[Len(r.trickHistory)].Winner
            ELSE nextToPlay(r)
      [] OTHER -> -1

TeamTricksWon(r, team) ==
    LET sum[i \in 0..r.numPlayers] ==
            IF i = 0 THEN 0
            ELSE sum[i - 1] + (IF Team(i - 1) = team THEN r.tricksWon[i - 1] ELSE 0)
    IN sum[r.numPlayers]

Rejected(r, e) == [r |-> r, err |-> e]
Accepted(r) == [r |-> r, err |-> NoError]

\* handlePass that reopens the first bidding round when the second round is
\* passed out (a fault C6_PhaseEdges detects)
handlePass_Reopens(r, action) ==
    IF r.phase # PhaseBidRound1 /\ r.phase # PhaseBidRound2
    THEN Rejected(r, "cannot pass in this phase")
    ELSE IF action.PlayerIdx # r.currentBidder
    THEN Rejected(r, ErrNotYourTurn)
    ELSE LET r1 == [r EXCEPT !.currentBidder = NextPlayer(r.currentBidder, r.numPlayers)] IN
         IF r1.currentBidder = NextPlayer(r1.dealer, r1.numPlayers)
         THEN IF r1.bidRound = 1
              THEN Accepted([r1 EXCEPT !.bidRound = 2, !.phase = PhaseBidRound2])
              ELSE Accepted([r1 EXCEPT !.bidRound = 1, !.phase = PhaseBidRound1])
         ELSE Accepted(r1)

\* handlePass that closes a bidding round when the bid reaches the dealer, one
\* seat early (a fault C10_BiddingOrder detects)
handlePass_OneEarly(r, action) ==
    IF r.phase # PhaseBidRound1 /\ r.phase # PhaseBidRound2
    THEN Rejected(r, "cannot pass in this phase")
    ELSE IF action.PlayerIdx # r.currentBidder
    THEN Rejected(r, ErrNotYourTurn)
    ELSE LET r1 == [r EXCEPT !.currentBidder = NextPlayer(r.currentBidder, r.numPlayers)] IN
         IF r1.currentBidder = r1.dealer
         THEN IF r1.bidRound = 1
              THEN Accepted([r1 EXCEPT !.bidRound = 2, !.phase = PhaseBidRound2])
              ELSE Accepted([r1 EXCEPT !.phase = PhaseRoundEnd])
         ELSE Accepted(r1)

\* handlePass that keeps the second bidding round open when all four seats have
\* passed in it (a fault C32_Terminates detects)
handlePass_NoMisdeal(r, action) ==
    IF r.phase # PhaseBidRound1 /\ r.phase # PhaseBidRound2
    THEN Rejected(r, "cannot pass in this phase")
    ELSE IF action.PlayerIdx # r.currentBidder
    THEN Rejected(r, ErrNotYourTurn)
    ELSE LET r1 == [r EXCEPT !.currentBidder = NextPlayer(r.currentBidder, r.numPlayers)] IN
         IF r1.currentBidder = NextPlayer(r1.dealer, r1.numPlayers) /\ r1.bidRound = 1
         THEN Accepted([r1 EXCEPT !.bidRound = 2, !.phase = PhaseBidRound2])
         ELSE Accepted(r1)

handlePass(r, action) ==
    IF r.phase # PhaseBidRound1 /\ r.phase # PhaseBidRound2
    THEN Rejected(r, "cannot pass in this phase")
    ELSE IF action.PlayerIdx # r.currentBidder
    THEN Rejected(r, ErrNotYourTurn)
    ELSE LET r1 == [r EXCEPT !.currentBidder = NextPlayer(r.currentBidder, r.numPlayers)] IN
         IF r1.currentBidder = NextPlayer(r1.dealer, r1.numPlayers)
         THEN IF r1.bidRound = 1
              THEN Accepted([r1 EXCEPT !.bidRound = 2, !.phase = PhaseBidRound2])
              ELSE Accepted([r1 EXCEPT !.phase = PhaseRoundEnd])
         ELSE Accepted(r1)

\* handleOrderUp that tests for a bidding phase instead of the first bidding
\* round (a fault C9_PhaseOfAction detects)
handleOrderUp_AnyBidRound(r, action) ==
    IF r.phase # PhaseBidRound1 /\ r.phase # PhaseBidRound2
    THEN Rejected(r, "can only order up in round 1")
    ELSE IF action.PlayerIdx # r.currentBidder
    THEN Rejected(r, ErrNotYourTurn)
    ELSE Accepted([r EXCEPT !.trump = r.turnedCard.Suit,
                            !.maker = action.PlayerIdx,
                            !.makerTeam = Team(action.PlayerIdx),
                            !.alone = action.Alone,
                            !.hands[r.dealer] = HandAdd(@, r.turnedCard),
                            !.phase = PhaseDiscard])

\* handleOrderUp that gives the turned card to the seat that ordered up instead
\* of the dealer (a fault C11_OrderUp detects)
handleOrderUp_MakerPicksUp(r, action) ==
    IF r.phase # PhaseBidRound1
    THEN Rejected(r, "can only order up in round 1")
    ELSE IF action.PlayerIdx # r.currentBidder
    THEN Rejected(r, ErrNotYourTurn)
    ELSE Accepted([r EXCEPT !.trump = r.turnedCard.Suit,
                            !.maker = action.PlayerIdx,
                            !.makerTeam = Team(action.PlayerIdx),
                            !.alone = action.Alone,
                            !.hands[action.PlayerIdx] = HandAdd(@, r.turnedCard),
                            !.phase = PhaseDiscard])

\* handleOrderUp that adds the turned card to the dealer's hand twice (a fault
\* C25_HandSizes detects)
handleOrderUp_PicksUpTwice(r, action) ==
    IF r.phase # PhaseBidRound1
    THEN Rejected(r, "can only order up in round 1")
    ELSE IF action.PlayerIdx # r.currentBidder
    THEN Rejected(r, ErrNotYourTurn)
    ELSE Accepted([r EXCEPT !.trump = r.turnedCard.Suit,
                            !.maker = action.PlayerIdx,
                            !.makerTeam = Team(action.PlayerIdx),
                            !.alone = action.Alone,
                            !.hands[r.dealer] = HandAdd(HandAdd(@, r.turnedCard),
                                                        r.turnedCard),
                            !.phase = PhaseDiscard])

handleOrderUp(r, action) ==
    IF r.phase # PhaseBidRound1
    THEN Rejected(r, "can only order up in round 1")
    ELSE IF action.PlayerIdx # r.currentBidder
    THEN Rejected(r, ErrNotYourTurn)
    ELSE Accepted([r EXCEPT !.trump = r.turnedCard.Suit,
                            !.maker = action.PlayerIdx,
                            !.makerTeam = Team(action.PlayerIdx),
                            !.alone = action.Alone,
                            !.hands[r.dealer] = HandAdd(@, r.turnedCard),
                            !.phase = PhaseDiscard])

AllHaveFive(r) == \A i \in 0..(r.numPlayers - 1) : HandSize(r.hands[i]) = 5

\* handleCallTrump that tests the called suit after trump and maker are assigned
\* (a fault C8_RejectionIsAtomic detects)
handleCallTrump_LateSuitCheck(r, action) ==
    IF r.phase # PhaseBidRound2
    THEN Rejected(r, "can only call trump in round 2")
    ELSE IF action.PlayerIdx # r.currentBidder
    THEN Rejected(r, ErrNotYourTurn)
    ELSE LET r1 == [r EXCEPT !.trump = action.Suit,
                             !.maker = action.PlayerIdx,
                             !.makerTeam = Team(action.PlayerIdx),
                             !.alone = action.Alone] IN
         IF action.Suit = r.turnedCard.Suit
         THEN Rejected(r1, "cannot call the turned suit in round 2")
         ELSE IF ~AllHaveFive(r1)
         THEN Rejected(r1, "all players must have 5 cards before play phase")
         ELSE Accepted([r1 EXCEPT !.phase = PhasePlay,
                                  !.currentTrick = NewTrick(r1.trump)])

\* handleCallTrump without the test against the turned card's suit (a fault
\* C13_CallTrump detects)
handleCallTrump_AnySuit(r, action) ==
    IF r.phase # PhaseBidRound2
    THEN Rejected(r, "can only call trump in round 2")
    ELSE IF action.PlayerIdx # r.currentBidder
    THEN Rejected(r, ErrNotYourTurn)
    ELSE LET r1 == [r EXCEPT !.trump = action.Suit,
                             !.maker = action.PlayerIdx,
                             !.makerTeam = Team(action.PlayerIdx),
                             !.alone = action.Alone] IN
         IF ~AllHaveFive(r1)
         THEN Rejected(r1, "all players must have 5 cards before play phase")
         ELSE Accepted([r1 EXCEPT !.phase = PhasePlay,
                                  !.currentTrick = NewTrick(r1.trump)])

handleCallTrump(r, action) ==
    IF r.phase # PhaseBidRound2
    THEN Rejected(r, "can only call trump in round 2")
    ELSE IF action.PlayerIdx # r.currentBidder
    THEN Rejected(r, ErrNotYourTurn)
    ELSE IF action.Suit = r.turnedCard.Suit
    THEN Rejected(r, "cannot call the turned suit in round 2")
    ELSE \* trump, maker, makerTeam and alone are assigned before the sanity check
         LET r1 == [r EXCEPT !.trump = action.Suit,
                             !.maker = action.PlayerIdx,
                             !.makerTeam = Team(action.PlayerIdx),
                             !.alone = action.Alone] IN
         IF ~AllHaveFive(r1)
         THEN Rejected(r1, "all players must have 5 cards before play phase")
         ELSE Accepted([r1 EXCEPT !.phase = PhasePlay,
                                  !.currentTrick = NewTrick(r1.trump)])

\* handleDiscard after Remove returned rem: the card is removed before the size
\* checks that follow
discardChecks(r1, removed, beforeSize, afterSize) ==
    IF ~removed
    THEN Rejected(r1, "failed to remove card from hand")
    ELSE IF afterSize # beforeSize - 1
    THEN Rejected(r1, "hand size did not decrease after discard")
    ELSE IF afterSize # 5
    THEN Rejected(r1, "dealer should have exactly 5 cards after discard")
    ELSE IF ~AllHaveFive(r1)
    THEN Rejected(r1, "all players must have 5 cards before play phase")
    ELSE Accepted([r1 EXCEPT !.phase = PhasePlay,
                             !.currentTrick = NewTrick(r1.trump)])

discardRemoved(r, beforeSize, rem) ==
    discardChecks([r EXCEPT !.hands[r.dealer] = rem.cards], rem.removed,
                  beforeSize, HandSize(rem.cards))

\* handleDiscard without the test that the dealer holds the card (a fault
\* C12_Discard detects)
handleDiscard_NoHeldCheck(r, action) ==
    IF r.phase # PhaseDiscard
    THEN Rejected(r, "not in discard phase")
    ELSE IF action.PlayerIdx # r.dealer
    THEN Rejected(r, "only dealer can discard")
    ELSE discardRemoved(r, HandSize(r.hands[r.dealer]),
                        HandRemove(r.hands[r.dealer], action.Card))

handleDiscard(r, action) ==
    IF r.phase # PhaseDiscard
    THEN Rejected(r, "not in discard phase")
    ELSE IF action.PlayerIdx # r.dealer
    THEN Rejected(r, "only dealer can discard")
    ELSE IF ~HandContains(r.hands[r.dealer], action.Card)
    THEN Rejected(r, ErrCardNotInHand)
    ELSE discardRemoved(r, HandSize(r.hands[r.dealer]),
                        HandRemove(r.hands[r.dealer], action.Card))

\* completeTrick once the trick's result is recorded
\* completeTrick that starts the next trick without the round's trump (a fault
\* C36_BidIsFixed detects)
completeRecorded_TrumplessTrick(r1) ==
    IF Len(r1.trickHistory) >= 5
    THEN [r1 EXCEPT !.phase = PhaseRoundEnd]
    ELSE [r1 EXCEPT !.currentTrick = NewTrick(NoSuit)]

completeRecorded(r1) ==
    IF Len(r1.trickHistory) >= 5
    THEN [r1 EXCEPT !.phase = PhaseRoundEnd]
    ELSE [r1 EXCEPT !.currentTrick = NewTrick(r1.trump)]

\* completeTrick whose bounds test on the winner leaves out seat 0 (a fault
\* C18_TrickTotals detects)
completeWith_SkipsSeatZero(r, result) ==
    completeRecorded([r EXCEPT !.tricksWon =
                                   IF result.Winner > 0 /\ result.Winner < r.numPlayers
                                   THEN [@ EXCEPT ![result.Winner] = @ + 1]
                                   ELSE @,
                               !.trickHistory = Append(@, result)])

completeWith(r, result) ==
    completeRecorded([r EXCEPT !.tricksWon =
                                   IF result.Winner >= 0 /\ result.Winner < r.numPlayers
                                   THEN [@ EXCEPT ![result.Winner] = @ + 1]
                                   ELSE @,
                               !.trickHistory = Append(@, result)])

completeTrick(r) == completeWith(r, TrickResult(r.currentTrick))

\* the trick-completion test of handlePlayCard that ignores the alone flag (a
\* fault C15_TrickCompletion detects)
playPlayed_IgnoresAlone(r1) ==
    IF TrickSize(r1.currentTrick) >= r1.numPlayers
    THEN Accepted(completeTrick(r1))
    ELSE Accepted(r1)

\* handlePlayCard after the card went from the hand to the trick
playPlayed(r1) ==
    IF TrickSize(r1.currentTrick) >= (IF r1.alone THEN r1.numPlayers - 1 ELSE r1.numPlayers)
    THEN Accepted(completeTrick(r1))
    ELSE Accepted(r1)

\* handlePlayCard after ValidatePlay returned e
playValidated(r, action, e) ==
    IF e # NoError
    THEN Rejected(r, e)
    ELSE playPlayed([r EXCEPT
            !.hands[action.PlayerIdx] = HandRemove(@, action.Card).cards,
            !.currentTrick = TrickPlay(@, action.PlayerIdx, action.Card)])

handlePlayCard(r, action) ==
    IF r.phase # PhasePlay
    THEN Rejected(r, "not in play phase")
    ELSE IF action.PlayerIdx # CurrentPlayer(r)
    THEN Rejected(r, ErrNotYourTurn)
    ELSE IF HandSize(r.hands[action.PlayerIdx]) > 5
    THEN Rejected(r, "player has more than 5 cards - this is a bug")
    ELSE playValidated(r, action,
                       ValidatePlay(r.hands[action.PlayerIdx], action.Card, r.currentTrick))

RoundApplyAction(r, action) ==
    CASE action.type = ActionPass -> handlePass(r, action)
      [] action.type = ActionOrderUp -> handleOrderUp(r, action)
      [] action.type = ActionCallTrump -> handleCallTrump(r, action)
      [] action.type = ActionDiscard -> handleDiscard(r, action)
      [] action.type = ActionPlayCard -> handlePlayCard(r, action)
      [] OTHER -> Rejected(r, "unknown action type")

\* Round.Result without the reset of the points when no trump was called (a fault
\* C14_Misdeal detects)
RoundResultOf_NoMisdealCase(r, makerTricks) ==
    LET wasEuchred == makerTricks < 3
        makerPoints == IF wasEuchred THEN 0
                       ELSE IF makerTricks = 5 THEN (IF r.alone THEN 4 ELSE 2)
                       ELSE 1
        defendPoints == IF wasEuchred THEN 2 ELSE 0
    IN [Makers |-> r.makerTeam,
        MakerTricks |-> makerTricks,
        WasAlone |-> r.alone,
        WasEuchred |-> wasEuchred,
        MakerPoints |-> makerPoints,
        DefendPoints |-> defendPoints]

\* Round.Result that counts three tricks as a euchre (a fault C17_Result detects)
RoundResultOf_EuchredAtThree(r, makerTricks) ==
    LET wasEuchred == makerTricks <= 3
        makerPoints == IF wasEuchred THEN 0
                       ELSE IF makerTricks = 5 THEN (IF r.alone THEN 4 ELSE 2)
                       ELSE 1
        defendPoints == IF wasEuchred THEN 2 ELSE 0
    IN [Makers |-> r.makerTeam,
        MakerTricks |-> makerTricks,
        WasAlone |-> r.alone,
        WasEuchred |-> wasEuchred,
        MakerPoints |-> IF r.maker < 0 THEN 0 ELSE makerPoints,
        DefendPoints |-> IF r.maker < 0 THEN 0 ELSE defendPoints]

\* Round.Result, given makerTricks, the tricks of the maker's team
RoundResultOf(r, makerTricks) ==
    LET wasEuchred == makerTricks < 3
        makerPoints == IF wasEuchred THEN 0
                       ELSE IF makerTricks = 5 THEN (IF r.alone THEN 4 ELSE 2)
                       ELSE 1
        defendPoints == IF wasEuchred THEN 2 ELSE 0
    IN [Makers |-> r.makerTeam,
        MakerTricks |-> makerTricks,
        WasAlone |-> r.alone,
        WasEuchred |-> wasEuchred,
        MakerPoints |-> IF r.maker < 0 THEN 0 ELSE makerPoints,
        DefendPoints |-> IF r.maker < 0 THEN 0 ELSE defendPoints]

RoundResult(r) == RoundResultOf(r, TeamTricksWon(r, r.makerTeam))

RoundIsComplete(r) == r.phase = PhaseRoundEnd \/ r.phase = PhaseGameEnd

\* LegalActions that offers in PhasePlay every card of the hand (a fault
\* C19_LegalActionsAccepted detects)
RoundLegalActions_WholeHand(r) ==
    LET player == CurrentPlayer(r) IN
    IF player < 0 THEN <<>>
    ELSE CASE r.phase = PhaseBidRound1 ->
                <<PassAction(player), OrderUpAction(player, FALSE),
                  OrderUpAction(player, TRUE)>>
           [] r.phase = PhaseBidRound2 ->
                LET callable == SelectSeq(<<Clubs, Diamonds, Hearts, Spades>>,
                                          LAMBDA s : s # r.turnedCard.Suit)
                    calls[i \in 0..Len(callable)] ==
                        IF i = 0 THEN <<>>
                        ELSE calls[i - 1] \o <<CallTrumpAction(player, callable[i], FALSE),
                                                CallTrumpAction(player, callable[i], TRUE)>>
                IN <<PassAction(player)>> \o calls[Len(callable)]
           [] r.phase = PhaseDiscard ->
                [i \in 1..Len(r.hands[r.dealer]) |->
                    DiscardAction(player, r.hands[r.dealer][i])]
           [] r.phase = PhasePlay ->
                [i \in 1..Len(r.hands[player]) |->
                    PlayCardAction(player, r.hands[player][i])]
           [] OTHER -> <<>>

RoundLegalActions(r) ==
    LET player == CurrentPlayer(r) IN
    IF player < 0 THEN <<>>
    ELSE CASE r.phase = PhaseBidRound1 ->
                <<PassAction(player), OrderUpAction(player, FALSE),
                  OrderUpAction(player, TRUE)>>
           [] r.phase = PhaseBidRound2 ->
                LET callable == SelectSeq(<<Clubs, Diamonds, Hearts, Spades>>,
                                          LAMBDA s : s # r.turnedCard.Suit)
                    calls[i \in 0..Len(callable)] ==
                        IF i = 0 THEN <<>>
                        ELSE calls[i - 1] \o <<CallTrumpAction(player, callable[i], FALSE),
                                                CallTrumpAction(player, callable[i], TRUE)>>
                IN <<PassAction(player)>> \o calls[Len(callable)]
           [] r.phase = PhaseDiscard ->
                [i \in 1..Len(r.hands[r.dealer]) |->
                    DiscardAction(player, r.hands[r.dealer][i])]
           [] r.phase = PhasePlay ->
                LET legal == LegalPlays(r.hands[player], r.currentTrick) IN
                [i \in 1..Len(legal) |-> PlayCardAction(player, legal[i])]
           [] OTHER -> <<>>

(***************************************************************************)
(* game.go: Game.  The Game's currentRound and deck are the variables      *)
(* round and deck; its other fields are the record game.                   *)
(***************************************************************************)
CreateDeck(deckConfig) ==
    IF deckConfig = "BritishDeckConfig" THEN NewBritishDeck ELSE NewStandardDeck

NewGame(config) ==
    [numPlayers |-> IF config.NumPlayers = 0 THEN 4 ELSE config.NumPlayers,
     targetScore |-> IF config.TargetScore = 0 THEN 10 ELSE config.TargetScore,
     deckConfig |-> config.DeckConfig,
     scores |-> [t \in 0..1 |-> 0],
     dealer |-> 0,
     roundHistory |-> <<>>]

\* Game.endRound that keeps the dealer after a misdeal (a fault
\* C21_EndOfRound detects)
endRoundWith_SameDealerOnMisdeal(g, result) ==
    LET s1 == IF result.MakerPoints > 0
              THEN [g.scores EXCEPT ![result.Makers] = @ + result.MakerPoints]
              ELSE g.scores
        s2 == IF result.DefendPoints > 0
              THEN [s1 EXCEPT ![1 - result.Makers] = @ + result.DefendPoints]
              ELSE s1
    IN [g EXCEPT !.roundHistory = Append(@, result),
                 !.scores = s2,
                 !.dealer = IF result.Makers < 0 THEN g.dealer
                            ELSE NextPlayer(g.dealer, g.numPlayers)]

\* Game.endRound, given result, the round's Result()
endRoundWith(g, result) ==
    LET s1 == IF result.MakerPoints > 0
              THEN [g.scores EXCEPT ![result.Makers] = @ + result.MakerPoints]
              ELSE g.scores
        s2 == IF result.DefendPoints > 0
              THEN [s1 EXCEPT ![1 - result.Makers] = @ + result.DefendPoints]
              ELSE s1
    IN [g EXCEPT !.roundHistory = Append(@, result),
                 !.scores = s2,
                 !.dealer = NextPlayer(g.dealer, g.numPlayers)]

endRound(g, r) == endRoundWith(g, RoundResult(r))

\* Game.ApplyAction that ends the round whenever it is complete after the call,
\* also when the action was rejected (a fault C37_ScoredOnce detects)
gameApplied_EndsRoundAgain(g, res) ==
    IF RoundIsComplete(res.r)
    THEN [g |-> endRound(g, res.r), r |-> res.r, err |-> res.err]
    ELSE [g |-> g, r |-> res.r, err |-> res.err]

\* Game.ApplyAction after the round's ApplyAction returned res
gameApplied(g, res) ==
    IF res.err # NoError
    THEN [g |-> g, r |-> res.r, err |-> res.err]
    ELSE IF RoundIsComplete(res.r)
    THEN [g |-> endRound(g, res.r), r |-> res.r, err |-> NoError]
    ELSE [g |-> g, r |-> res.r, err |-> NoError]

\* Game.ApplyAction: the Game, its round and the error after the call
GameApplyAction(g, r, action) ==
    IF IsNil(r)
    THEN [g |-> g, r |-> r, err |-> "no round in progress"]
    ELSE gameApplied(g, RoundApplyAction(r, action))

IsOver(g) == \E t \in 0..1 : g.scores[t] >= g.targetScore

GameWinner(g) ==
    IF g.scores[0] >= g.targetScore THEN 0
    ELSE IF g.scores[1] >= g.targetScore THEN 1
    ELSE -1

NeedsNewRound(g, r) ==
    IF IsOver(g) THEN FALSE ELSE IF IsNil(r) THEN TRUE ELSE RoundIsComplete(r)

(***************************************************************************)
(* Spec: the engine driven through its two entry points.  Either a Round   *)
(* is used directly (NewRound with any dealer, Deal of a fresh standard    *)
(* deck, Round.ApplyAction), as the package's tests do, and game is        *)
(* NoGame; or a Game is (NewGame, StartRound, Game.ApplyAction), as the    *)
(* application does.  Actions of every kind are submitted by every seat,   *)
(* with every suit, card and alone flag.                                   *)
(***************************************************************************)
\* GameConfig.TargetScore and the deck configurations of the modelled Games
ConfigTargetScore == 3
ConfigDecks == {"StandardDeckConfig"}
\* a Game is followed for at most MaxRounds rounds
MaxRounds == 1
\* in the first MaxFreeTricks tricks of a round the seat on turn may play any
\* card; afterwards it plays the first legal card of its hand
MaxFreeTricks == 0

Init ==
    /\ argCard = Unused /\ argTrump = Unused /\ out = NoOut
    /\ hand = Unused /\ trick = Unused
    /\ \/ /\ game = NoGame
          /\ round \in {NewRound(NumPlayers, d) : d \in Seats}
          /\ deck = NewStandardDeck
       \/ /\ game \in {NewGame([NumPlayers |-> NumPlayers,
                                TargetScore |-> ConfigTargetScore,
                                DeckConfig |-> dc]) : dc \in ConfigDecks}
          /\ round = NoRound
          /\ deck = CreateDeck(game.deckConfig)

Untouched == UNCHANGED <<argCard, argTrump, out, hand, trick>>

Dealt(res) == round' = res.r /\ deck' = res.deck

\* Round.Deal(deck) on a Round made by NewRound
DealStep ==
    \E k \in 1..NumShuffles :
        /\ game = NoGame
        /\ round.phase = PhaseDeal
        /\ Dealt(Deal(round, Shuffle(deck, k)))
        /\ UNCHANGED game
        /\ Untouched

\* Game.StartRound, when no round is in progress
StartRound ==
    \E k \in 1..NumShuffles :
        /\ game # NoGame
        /\ IF IsNil(round) THEN TRUE ELSE RoundIsComplete(round)
        /\ Len(game.roundHistory) < MaxRounds
        /\ Dealt(Deal(NewRound(game.numPlayers, game.dealer),
                       Shuffle(CreateDeck(game.deckConfig), k)))
        /\ UNCHANGED game
        /\ Untouched

\* the call ApplyAction(action): Game.ApplyAction, or Round.ApplyAction of a
\* Round used directly.  res.err is the error the caller gets.
ApplyAction(action) ==
    IF game = NoGame
    THEN RoundApplyAction(round, action) @@ [g |-> game]
    ELSE GameApplyAction(game, round, action)

Applied(res) ==
    /\ game' = res.g
    /\ round' = res.r
    /\ UNCHANGED deck

Apply(action) == Applied(ApplyAction(action))

\* the cards seat p submits with a Discard or a PlayCard: the cards it holds and
\* one card that no seat holds (the top card left in the deck)
CardInputs(p) ==
    IF IsNil(round) THEN {deck[Len(deck)]}
    ELSE {round.hands[p][i] : i \in 1..Len(round.hands[p])}
            \cup (IF Len(deck) > 0 THEN {deck[Len(deck)]} ELSE {})

\* after the first MaxFreeTricks tricks of a round the seat on turn plays, of its
\* legal cards, only the first
PlayInputs(p) ==
    IF IsNil(round) THEN CardInputs(p)
    ELSE IF /\ round.phase = PhasePlay
            /\ Len(round.trickHistory) >= MaxFreeTricks
            /\ p = CurrentPlayer(round)
         THEN LET legal == LegalPlays(round.hands[p], round.currentTrick)
              IN CardInputs(p) \ {legal[i] : i \in 2..Len(legal)}
         ELSE CardInputs(p)

Pass ==
    \E p \in Seats :
        /\ Apply(PassAction(p))
        /\ Untouched

OrderUp ==
    \E p \in Seats, alone \in BOOLEAN :
        /\ Apply(OrderUpAction(p, alone))
        /\ Untouched

CallTrump ==
    \E p \in Seats, suit \in AllSuits, alone \in BOOLEAN :
        /\ Apply(CallTrumpAction(p, suit, alone))
        /\ Untouched

Discard ==
    \E p \in Seats : \E c \in CardInputs(p) :
        /\ Apply(DiscardAction(p, c))
        /\ Untouched

PlayCard ==
    \E p \in Seats : \E c \in PlayInputs(p) :
        /\ Apply(PlayCardAction(p, c))
        /\ Untouched

Next == DealStep \/ StartRound \/ Pass \/ OrderUp \/ CallTrump \/ Discard \/ PlayCard

Spec == Init /\ [][Next]_vars

(***************************************************************************)
(* Claims about Round.ApplyAction and Game.ApplyAction.  They are stated   *)
(* of the call ApplyAction(a) in every reachable state, for every Action   *)
(* value a: each kind, each seat (and one value off either end of the      *)
(* seats), each suit, each of the 25 cards and each alone flag.            *)
(***************************************************************************)
SeatInputs == -1..NumPlayers

ActionInputs ==
    {PassAction(p) : p \in SeatInputs}
        \cup {OrderUpAction(p, a) : p \in SeatInputs, a \in BOOLEAN}
        \cup {CallTrumpAction(p, s, a) : p \in SeatInputs, s \in AllSuits, a \in BOOLEAN}
        \cup {DiscardAction(p, c) : p \in SeatInputs, c \in AllCards}
        \cup {PlayCardAction(p, c) : p \in SeatInputs, c \in AllCards}

\* the phases the claims designate for each kind of action
DesignatedPhases(type) ==
    CASE type = ActionPass -> {PhaseBidRound1, PhaseBidRound2}
      [] type = ActionOrderUp -> {PhaseBidRound1}
      [] type = ActionCallTrump -> {PhaseBidRound2}
      [] type = ActionDiscard -> {PhaseDiscard}
      [] type = ActionPlayCard -> {PhasePlay}
      [] OTHER -> {}

\* the phase changes C6 allows
PhaseEdges ==
    {<<PhaseBidRound1, PhaseDiscard>>, <<PhaseBidRound1, PhaseBidRound2>>,
     <<PhaseDiscard, PhasePlay>>, <<PhaseBidRound2, PhasePlay>>,
     <<PhaseBidRound2, PhaseRoundEnd>>, <<PhasePlay, PhaseRoundEnd>>}

\* C6: on a dealt Round every ApplyAction call leaves the phase as it is or moves it
\* along one of the edges BidRound1->Discard, BidRound1->BidRound2, Discard->Play,
\* BidRound2->Play, BidRound2->RoundEnd, Play->RoundEnd; in RoundEnd every action
\* is rejected and the round is left exactly as it was.
C6_PhaseEdges ==
    IF IsNil(round) THEN TRUE
    ELSE round.phase # PhaseDeal =>
            \A a \in ActionInputs :
                LET res == ApplyAction(a) IN
                /\ \/ res.r.phase = round.phase
                   \/ <<round.phase, res.r.phase>> \in PhaseEdges
                /\ round.phase = PhaseRoundEnd =>
                        /\ res.err # NoError
                        /\ res.r = round

\* C6 witness: a round played to its fifth trick stands in RoundEnd, and the Pass of
\* the seat left of the dealer is refused there
C6_Witness ==
    IF IsNil(round) THEN FALSE
    ELSE /\ round.phase = PhaseRoundEnd
         /\ Len(round.trickHistory) = 5
         /\ ApplyAction(PassAction(NextPlayer(round.dealer, NumPlayers))).err # NoError

\* C7: in a phase that accepts the action's kind, an action whose seat is not
\* CurrentPlayer() is rejected with NotYourTurn.
C7_WrongSeatNotYourTurn ==
    IF IsNil(round) THEN TRUE
    ELSE \A a \in ActionInputs :
            (/\ round.phase \in DesignatedPhases(a.type)
             /\ a.PlayerIdx # CurrentPlayer(round))
                => ApplyAction(a).err = ErrNotYourTurn

\* C8: whenever ApplyAction returns an error, the Round and the Game (scores,
\* dealer, round history) are what they were before the call.
C8_RejectionIsAtomic ==
    \A a \in ActionInputs :
        LET res == ApplyAction(a) IN
        res.err # NoError =>
            /\ res.r = round
            /\ res.g = game

\* C8 witness: a Game's round is in BidRound2 and the current bidder's call of the
\* turned card's suit is refused
C8_Witness ==
    IF IsNil(round) THEN FALSE
    ELSE /\ game # NoGame
         /\ round.phase = PhaseBidRound2
         /\ ApplyAction(CallTrumpAction(round.currentBidder, round.turnedCard.Suit, TRUE)).err
                = "cannot call the turned suit in round 2"

\* C9: an action submitted in a phase other than those designated for its kind
\* (Deal and RoundEnd included) is rejected with an error, and Game.ApplyAction
\* is rejected when the Game has no round.
C9_PhaseOfAction ==
    \A a \in ActionInputs :
        IF IsNil(round)
        THEN ApplyAction(a).err # NoError
        ELSE round.phase \notin DesignatedPhases(a.type) => ApplyAction(a).err # NoError

\* C9 witness: in the Play phase the Pass of the seat on turn is refused
C9_Witness ==
    IF IsNil(round) THEN FALSE
    ELSE /\ round.phase = PhasePlay
         /\ ApplyAction(PassAction(CurrentPlayer(round))).err = "cannot pass in this phase"

\* the round r after the passes number j+1 .. k of its first bidding round, the
\* i-th made by seat dealer+i; ok iff each was accepted
RECURSIVE PassedBy(_, _, _)
PassedBy(r, j, k) ==
    IF k <= j THEN [r |-> r, ok |-> TRUE]
    ELSE [r |-> RoundApplyAction(PassedBy(r, j, k - 1).r,
                                 PassAction((r.dealer + k) % NumPlayers)).r,
          ok |-> /\ PassedBy(r, j, k - 1).ok
                 /\ RoundApplyAction(PassedBy(r, j, k - 1).r,
                                     PassAction((r.dealer + k) % NumPlayers)).err = NoError]

\* the passes made so far in the first bidding round of r
PassesMade(r) == (r.currentBidder - r.dealer - 1 + NumPlayers) % NumPlayers

\* what C10 says of the round s, k passes into the first bidding round of a round
\* dealt by seat d
C10_After(s, d, k) ==
    /\ k < 4 =>
        /\ s.phase = PhaseBidRound1
        /\ s.bidRound = 1
        /\ CurrentPlayer(s) = (d + 1 + k) % NumPlayers
        /\ \A p \in SeatInputs \ {(d + 1 + k) % NumPlayers} :
                RoundApplyAction(s, PassAction(p)).err # NoError
    /\ k = 4 =>
        /\ s.phase = PhaseBidRound2
        /\ s.bidRound = 2
        /\ s.currentBidder = (d + 1) % NumPlayers

\* C10: with dealer d the seats d+1, d+2, d+3, d pass in that order in BidRound1;
\* after fewer than four passes the phase is still BidRound1, after four it is
\* BidRound2 with bid round 2 and the bid back at seat d+1.
C10_BiddingOrder ==
    IF IsNil(round) THEN TRUE
    ELSE round.phase = PhaseBidRound1 =>
            \A k \in PassesMade(round)..4 :
                /\ PassedBy(round, PassesMade(round), k).ok
                /\ C10_After(PassedBy(round, PassesMade(round), k).r, round.dealer, k)

\* C10 witness: dealer 3, four passes made: BidRound2, and the bid is back at seat 0
C10_Witness ==
    IF IsNil(round) THEN FALSE
    ELSE /\ round.dealer = 3
         /\ round.phase = PhaseBidRound2
         /\ round.bidRound = 2
         /\ round.currentBidder = 0
         /\ round.maker = -1

\* the set of cards of the hand h
CardsIn(h) == {h[i] : i \in 1..Len(h)}

\* C11: in BidRound1 an OrderUp is accepted exactly from the current bidder, and an
\* accepted OrderUp sets trump to the turned card's suit, maker to the acting seat,
\* maker team to that seat's team (seat mod 2) and alone to the action's flag; the
\* dealer's hand gains the turned card and holds 6 cards whichever seat ordered up,
\* the other three hands are unchanged, the phase is Discard and the dealer is the
\* current player.
C11_OrderUp ==
    IF IsNil(round) THEN TRUE
    ELSE round.phase = PhaseBidRound1 =>
            \A p \in SeatInputs, alone \in BOOLEAN :
                LET res == ApplyAction(OrderUpAction(p, alone)) IN
                /\ res.err = NoError <=> p = round.currentBidder
                /\ res.err = NoError =>
                    /\ res.r.trump = round.turnedCard.Suit
                    /\ res.r.maker = p
                    /\ res.r.makerTeam = p % 2
                    /\ res.r.alone = alone
                    /\ CardsIn(res.r.hands[round.dealer])
                            = CardsIn(round.hands[round.dealer]) \cup {round.turnedCard}
                    /\ Len(res.r.hands[round.dealer]) = 6
                    /\ \A q \in Seats \ {round.dealer} : res.r.hands[q] = round.hands[q]
                    /\ res.r.phase = PhaseDiscard
                    /\ CurrentPlayer(res.r) = round.dealer

\* C11 witness: seat 2 ordered up alone with dealer 3: the dealer holds 6 cards, the
\* turned card among them, and the phase is Discard
C11_Witness ==
    IF IsNil(round) THEN FALSE
    ELSE /\ round.phase = PhaseDiscard
         /\ round.dealer = 3 /\ round.maker = 2 /\ round.makerTeam = 0 /\ round.alone
         /\ round.trump = round.turnedCard.Suit
         /\ Len(round.hands[3]) = 6
         /\ round.turnedCard \in CardsIn(round.hands[3])

\* C12: in the Discard phase the dealer's Discard of a card it does not hold is
\* rejected with CardNotInHand; of a card it holds, it is accepted, removes exactly
\* that card, leaves every seat with exactly 5 cards and the other hands unchanged,
\* and moves to Play with an empty trick whose trump is the round's trump.
C12_Discard ==
    IF IsNil(round) THEN TRUE
    ELSE round.phase = PhaseDiscard =>
            \A c \in AllCards :
                LET res == ApplyAction(DiscardAction(round.dealer, c))
                    held == c \in CardsIn(round.hands[round.dealer])
                IN  /\ ~held => res.err = ErrCardNotInHand
                    /\ held =>
                        /\ res.err = NoError
                        /\ res.r.hands[round.dealer]
                                = SelectSeq(round.hands[round.dealer], LAMBDA x : x # c)
                        /\ \A q \in Seats : Len(res.r.hands[q]) = 5
                        /\ \A q \in Seats \ {round.dealer} : res.r.hands[q] = round.hands[q]
                        /\ res.r.phase = PhasePlay
                        /\ res.r.trump = round.trump
                        /\ ~IsNil(res.r.currentTrick)
                        /\ TrickSize(res.r.currentTrick) = 0
                        /\ res.r.currentTrick.trump = round.trump

\* C12 witness: trump was ordered up and the dealer has discarded another card than
\* the turned one: Play has begun, no card is played, every seat holds 5 cards
C12_Witness ==
    IF IsNil(round) THEN FALSE
    ELSE /\ round.phase = PhasePlay
         /\ round.trump = round.turnedCard.Suit
         /\ Len(round.trickHistory) = 0
         /\ TrickSize(round.currentTrick) = 0
         /\ round.currentTrick.trump = round.trump
         /\ \A q \in Seats : Len(round.hands[q]) = 5
         /\ round.turnedCard \in CardsIn(round.hands[round.dealer])

\* C13: in BidRound2 the current bidder's CallTrump of the turned card's suit is
\* rejected, bidder and phase unchanged; its CallTrump of any other Suit value is
\* accepted, sets trump to that suit, maker to the bidder, maker team to the
\* bidder's team and alone to the action's flag, changes no hand (the turned card
\* is not picked up) and moves to Play with an empty trick of that trump.
C13_CallTrump ==
    IF IsNil(round) THEN TRUE
    ELSE round.phase = PhaseBidRound2 =>
            \A s \in AllSuits, alone \in BOOLEAN :
                LET res == ApplyAction(CallTrumpAction(round.currentBidder, s, alone)) IN
                /\ s = round.turnedCard.Suit =>
                    /\ res.err # NoError
                    /\ res.r.currentBidder = round.currentBidder
                    /\ res.r.phase = PhaseBidRound2
                /\ s # round.turnedCard.Suit =>
                    /\ res.err = NoError
                    /\ res.r.trump = s
                    /\ res.r.maker = round.currentBidder
                    /\ res.r.makerTeam = round.currentBidder % 2
                    /\ res.r.alone = alone
                    /\ res.r.hands = round.hands
                    /\ res.r.phase = PhasePlay
                    /\ ~IsNil(res.r.currentTrick)
                    /\ TrickSize(res.r.currentTrick) = 0
                    /\ res.r.currentTrick.trump = s

\* C13 witness: a suit other than the turned one was called alone in the second
\* bidding round: Play has begun with no card played, the turned card in no hand
C13_Witness ==
    IF IsNil(round) THEN FALSE
    ELSE /\ round.phase = PhasePlay
         /\ round.trump \in Suits /\ round.trump # round.turnedCard.Suit
         /\ round.maker >= 0 /\ round.alone
         /\ Len(round.trickHistory) = 0
         /\ TrickSize(round.currentTrick) = 0
         /\ \A q \in Seats : /\ Len(round.hands[q]) = 5
                             /\ round.turnedCard \notin CardsIn(round.hands[q])

\* what C14 says of the round s that ended as a misdeal
C14_MisdealRound(s) ==
    /\ s.phase = PhaseRoundEnd
    /\ s.maker = -1
    /\ s.trump = NoSuit
    /\ Len(s.trickHistory) = 0
    /\ IF IsNil(s.currentTrick) THEN TRUE ELSE TrickSize(s.currentTrick) = 0
    /\ \A q \in Seats : Len(s.hands[q]) = 5 /\ s.tricksWon[q] = 0
    /\ RoundResult(s).MakerPoints = 0
    /\ RoundResult(s).DefendPoints = 0

\* C14: eight passes in bidding order from the deal are all accepted and end the
\* round as a misdeal (RoundEnd, maker -1, trump NoSuit, no trick played, 5 cards
\* in every hand, a Result of 0 points for both teams); the pass that ends it
\* leaves both Game scores as they were while the Game records the round.
C14_Misdeal ==
    IF IsNil(round) THEN TRUE
    ELSE /\ (round.phase = PhaseBidRound1 /\ PassesMade(round) = 0) =>
                /\ PassedBy(round, 0, 8).ok
                /\ C14_MisdealRound(PassedBy(round, 0, 8).r)
         /\ (round.phase = PhaseBidRound2 /\ round.currentBidder = round.dealer) =>
                LET res == ApplyAction(PassAction(round.dealer)) IN
                /\ C14_MisdealRound(res.r)
                /\ res.err = NoError
                /\ game # NoGame =>
                    /\ res.g.scores = game.scores
                    /\ Len(res.g.roundHistory) = Len(game.roundHistory) + 1
         /\ (round.phase = PhaseRoundEnd /\ round.maker < 0) => C14_MisdealRound(round)

\* C14 witness: the first round of a Game was passed out: RoundEnd with no maker,
\* one result in the Game's history and both scores still 0
C14_Witness ==
    IF IsNil(round) THEN FALSE
    ELSE /\ game # NoGame
         /\ round.phase = PhaseRoundEnd /\ round.maker = -1 /\ round.trump = NoSuit
         /\ Len(game.roundHistory) = 1
         /\ game.scores[0] = 0 /\ game.scores[1] = 0

\* the number of seats that play to each trick of the round r
ActiveSeats(r) == IF r.alone THEN 3 ELSE 4

\* what C15 says of an accepted PlayCard of card c by seat p that took the round r
\* to s
C15_Played(r, s, p, c) ==
    LET plays == Append(r.currentTrick.cards, [Player |-> p, Card |-> c])
        w == Winner([r.currentTrick EXCEPT !.cards = plays,
                        !.leadSuit = IF Len(r.currentTrick.cards) = 0
                                     THEN EffectiveSuit(c, r.trump) ELSE @])
    IN IF Len(plays) = ActiveSeats(r)
       THEN /\ s.tricksWon = [r.tricksWon EXCEPT ![w] = @ + 1]
            /\ Len(s.trickHistory) = Len(r.trickHistory) + 1
            /\ SubSeq(s.trickHistory, 1, Len(r.trickHistory)) = r.trickHistory
            /\ s.trickHistory[Len(s.trickHistory)].Winner = w
            /\ s.trickHistory[Len(s.trickHistory)].Cards = plays
            /\ IF Len(s.trickHistory) = 5
               THEN s.phase = PhaseRoundEnd
               ELSE /\ s.phase = PhasePlay
                    /\ TrickSize(s.currentTrick) = 0
                    /\ s.currentTrick.trump = r.trump
       ELSE /\ Len(plays) < ActiveSeats(r)
            /\ s.tricksWon = r.tricksWon
            /\ s.trickHistory = r.trickHistory
            /\ s.phase = PhasePlay
            /\ s.currentTrick.cards = plays

\* C15: during Play an accepted PlayCard finalizes the trick exactly when it then
\* holds one play per active seat (4, or 3 when the maker is alone): the winner's
\* counter grows by one, the result is appended to the history, and an empty trick
\* of the round's trump starts unless the history holds 5 results, when the phase
\* becomes RoundEnd; otherwise counters, history and phase are unchanged.  The
\* history never exceeds 5, holds fewer than 5 during Play, and no action takes the
\* phase out of Play unless the history then holds exactly 5.
C15_TrickCompletion ==
    IF IsNil(round) THEN TRUE
    ELSE /\ Len(round.trickHistory) <= 5
         /\ round.phase = PhasePlay =>
                /\ Len(round.trickHistory) < 5
                /\ TrickSize(round.currentTrick) < ActiveSeats(round)
                /\ \A a \in ActionInputs :
                        LET res == ApplyAction(a) IN
                        /\ res.r.phase # PhasePlay => Len(res.r.trickHistory) = 5
                        /\ (a.type = ActionPlayCard /\ res.err = NoError) =>
                                C15_Played(round, res.r, a.PlayerIdx, a.Card)

\* C15 witness: the maker plays alone and the first trick was finalized with 3
\* plays: one result in the history, one trick counted, a new empty trick
C15_Witness ==
    IF IsNil(round) THEN FALSE
    ELSE /\ round.phase = PhasePlay /\ round.alone
         /\ Len(round.trickHistory) = 1
         /\ Len(round.trickHistory[1].Cards) = 3
         /\ round.tricksWon[round.trickHistory[1].Winner] = 1
         /\ TrickSize(round.currentTrick) = 0

\* the seat C16 has sitting out: the partner of a maker who plays alone
SitsOut(r, p) == r.alone /\ p = (r.maker + 2) % NumPlayers

\* the next seat clockwise after p that does not sit out
NextActive(r, p) ==
    IF SitsOut(r, (p + 1) % NumPlayers) THEN (p + 2) % NumPlayers ELSE (p + 1) % NumPlayers

\* the seat C16 puts on turn in the Play phase of r
C16_OnTurn(r) ==
    IF TrickSize(r.currentTrick) = 0
    THEN IF Len(r.trickHistory) = 0
         THEN NextActive(r, r.dealer)
         ELSE r.trickHistory[Len(r.trickHistory)].Winner
    ELSE NextActive(r, r.currentTrick.cards[TrickSize(r.currentTrick)].Player)

\* the plays are in clockwise order from the first, the sitting-out seat omitted
ClockwisePlays(r, plays) ==
    \A i \in 1..Len(plays) :
        /\ ~SitsOut(r, plays[i].Player)
        /\ i > 1 => plays[i].Player = NextActive(r, plays[i - 1].Player)

\* C16: in Play CurrentPlayer() is, on an empty trick, the previous trick's winner
\* or, for the first trick, the first seat from the dealer's left that does not sit
\* out; on a non-empty trick it is the next seat clockwise after the last player,
\* the lone maker's partner skipped.  The plays of the current trick and of every
\* recorded trick run clockwise from the trick's leader, who is that seat.
C16_TurnOrder ==
    IF IsNil(round) THEN TRUE
    ELSE /\ round.phase = PhasePlay =>
                /\ CurrentPlayer(round) = C16_OnTurn(round)
                /\ ~SitsOut(round, CurrentPlayer(round))
                /\ ClockwisePlays(round, round.currentTrick.cards)
         /\ \A k \in 1..Len(round.trickHistory) :
                /\ ClockwisePlays(round, round.trickHistory[k].Cards)
                /\ round.trickHistory[k].Cards[1].Player =
                        IF k = 1 THEN NextActive(round, round.dealer)
                        ELSE round.trickHistory[k - 1].Winner

\* C16 witness: the maker plays alone and, in a trick of at least two plays, the
\* second play came from two seats after the first: the partner was skipped
C16_Witness ==
    IF IsNil(round) THEN FALSE
    ELSE /\ round.phase = PhasePlay /\ round.alone
         /\ TrickSize(round.currentTrick) >= 2
         /\ round.currentTrick.cards[2].Player =
                (round.currentTrick.cards[1].Player + 2) % NumPlayers
         /\ Len(round.trickHistory) >= 1

\* the tricks won by the two seats of the maker's team in r
MakerTeamTricks(r) == r.tricksWon[r.maker] + r.tricksWon[(r.maker + 2) % NumPlayers]

\* C17: for a round with a maker in RoundEnd, Result() reports the maker team's
\* trick total m and the alone flag, and: m < 3 is WasEuchred with 2 points to the
\* defenders and 0 to the makers; m = 5 gives the makers 4 points when alone and 2
\* otherwise; m in {3, 4} gives the makers 1 point; the defenders get 0 unless
\* euchred.
C17_Result ==
    IF IsNil(round) THEN TRUE
    ELSE (round.phase = PhaseRoundEnd /\ round.maker >= 0) =>
            LET res == RoundResult(round)
                m == MakerTeamTricks(round)
            IN  /\ res.Makers = round.maker % 2
                /\ res.MakerTricks = m
                /\ res.WasAlone = round.alone
                /\ res.WasEuchred <=> m < 3
                /\ m < 3 => res.DefendPoints = 2 /\ res.MakerPoints = 0
                /\ m = 5 => res.MakerPoints = (IF round.alone THEN 4 ELSE 2)
                /\ m \in {3, 4} => res.MakerPoints = 1
                /\ m >= 3 => res.DefendPoints = 0

\* C17 witness (scenario D): a maker who played alone took all 5 tricks and the
\* Result gives the makers 4 points
C17_Witness ==
    IF IsNil(round) THEN FALSE
    ELSE /\ round.phase = PhaseRoundEnd /\ round.maker >= 0 /\ round.alone
         /\ MakerTeamTricks(round) = 5
         /\ RoundResult(round).MakerPoints = 4
         /\ RoundResult(round).DefendPoints = 0

\* the sum of the four per-seat trick counters of r
SeatTricks(r) == r.tricksWon[0] + r.tricksWon[1] + r.tricksWon[2] + r.tricksWon[3]

\* C18: in RoundEnd the tricks of the maker's team plus the tricks of the other
\* team are 5 when a maker named trump and 0 on a misdeal; in every phase the
\* per-seat trick counters sum to the length of the trick history.
C18_TrickTotals ==
    IF IsNil(round) THEN TRUE
    ELSE /\ SeatTricks(round) = Len(round.trickHistory)
         /\ round.phase = PhaseRoundEnd =>
                TeamTricksWon(round, round.makerTeam)
                    + TeamTricksWon(round, 1 - round.makerTeam)
                        = (IF round.maker >= 0 THEN 5 ELSE 0)

\* C18 witness: a round with a maker ended with 3 tricks for team 0 and 2 for team 1
C18_Witness ==
    IF IsNil(round) THEN FALSE
    ELSE /\ round.phase = PhaseRoundEnd /\ round.maker >= 0
         /\ TeamTricksWon(round, 0) = 3
         /\ TeamTricksWon(round, 1) = 2
         /\ Len(round.trickHistory) = 5

\* C19: every action LegalActions() returns carries the seat CurrentPlayer() and
\* is accepted by ApplyAction in the state it was returned in.
C19_LegalActionsAccepted ==
    IF IsNil(round) THEN TRUE
    ELSE LET acts == RoundLegalActions(round) IN
         \A i \in 1..Len(acts) :
            /\ acts[i].PlayerIdx = CurrentPlayer(round)
            /\ ApplyAction(acts[i]).err = NoError

\* C19 witness: in PhasePlay the seat on turn must follow suit, so LegalActions
\* lists some but not all of its cards, and every listed play is accepted
C19_Witness ==
    IF IsNil(round) THEN FALSE
    ELSE /\ round.phase = PhasePlay
         /\ LET acts == RoundLegalActions(round)
                player == CurrentPlayer(round)
            IN /\ player >= 0
               /\ Len(acts) > 0
               /\ Len(acts) < Len(round.hands[player])
               /\ \A i \in 1..Len(acts) : ApplyAction(acts[i]).err = NoError

\* the actions LegalActions() returns, as a set
LegalActionSet(r) ==
    LET acts == RoundLegalActions(r) IN {acts[i] : i \in 1..Len(acts)}

\* C20: every Action value that ApplyAction accepts in a state, whatever its
\* seat, suit, card or alone payload, is a member of LegalActions() of that
\* state.
C20_LegalActionsComplete ==
    IF IsNil(round) THEN TRUE
    ELSE LET legal == LegalActionSet(round) IN
         \A a \in ActionInputs :
            ApplyAction(a).err = NoError => a \in legal

\* C20, apart from a CallTrump that names NoSuit: every other accepted action is
\* a member of LegalActions()
C20_CompleteButNoSuit ==
    IF IsNil(round) THEN TRUE
    ELSE LET legal == LegalActionSet(round) IN
         \A a \in ActionInputs :
            (/\ ApplyAction(a).err = NoError
             /\ ~(a.type = ActionCallTrump /\ a.Suit = NoSuit)) => a \in legal

\* C20: the accepted action outside LegalActions(): in PhaseBidRound2 the current
\* bidder's CallTrump of NoSuit
C20_NoSuitCallAccepted ==
    IF IsNil(round) THEN FALSE
    ELSE /\ round.phase = PhaseBidRound2
         /\ LET a == CallTrumpAction(round.currentBidder, NoSuit, FALSE) IN
            /\ ApplyAction(a).err = NoError
            /\ a \notin LegalActionSet(round)

(***************************************************************************)
(* GameSpec: a Game followed over several rounds.  Game.StartRound has no  *)
(* precondition in the code, so it is called in any state of the Game:     *)
(* before the first round, in the middle of a round, after a round ended   *)
(* and after a team reached the target score.                              *)
(***************************************************************************)
\* a Game is followed until MaxGameRounds rounds are in its history
MaxGameRounds == 2

GameInit ==
    /\ argCard = Unused /\ argTrump = Unused /\ out = NoOut
    /\ hand = Unused /\ trick = Unused
    /\ game \in {NewGame([NumPlayers |-> NumPlayers,
                          TargetScore |-> ConfigTargetScore,
                          DeckConfig |-> dc]) : dc \in ConfigDecks}
    /\ round = NoRound
    /\ deck = CreateDeck(game.deckConfig)

\* Game.StartRound, called in any state of the Game
StartRoundAnytime ==
    \E k \in 1..NumShuffles :
        /\ Len(game.roundHistory) < MaxGameRounds
        /\ Dealt(Deal(NewRound(game.numPlayers, game.dealer),
                       Shuffle(CreateDeck(game.deckConfig), k)))
        /\ UNCHANGED game
        /\ Untouched

GameNext == StartRoundAnytime \/ Pass \/ OrderUp \/ CallTrump \/ Discard \/ PlayCard

GameSpec == GameInit /\ [][GameNext]_vars

\* the points a RoundResult awards to team t
PointsFor(result, t) ==
    IF t = result.Makers THEN result.MakerPoints ELSE result.DefendPoints

\* C21: an action accepted by Game.ApplyAction that brings the round to RoundEnd
\* appends the round's result to the history, adds the result's points to each
\* team's score and moves the dealer one seat on, also on a misdeal; every other
\* call of ApplyAction leaves the Game's scores, dealer and history as they were.
C21_EndOfRound ==
    \A a \in ActionInputs :
        LET res == ApplyAction(a) IN
        IF IsNil(round) THEN res.g = game
        ELSE IF res.err = NoError /\ res.r.phase = PhaseRoundEnd
        THEN LET result == RoundResult(res.r) IN
             /\ res.g.roundHistory = Append(game.roundHistory, result)
             /\ \A t \in 0..1 :
                    res.g.scores[t] = game.scores[t] + PointsFor(result, t)
             /\ res.g.dealer = (game.dealer + 1) % NumPlayers
        ELSE res.g = game

\* C21 witness: a Game whose first round was a misdeal and whose second round
\* scored; the dealer moved on twice
C21_Witness ==
    /\ game # NoGame
    /\ Len(game.roundHistory) = 2
    /\ game.roundHistory[1].Makers < 0
    /\ game.roundHistory[2].Makers >= 0
    /\ game.scores[0] + game.scores[1] > 0
    /\ game.dealer = 2
    /\ round.phase = PhaseRoundEnd

\* C22: once IsOver() is true, no StartRound or ApplyAction call changes a
\* team's score, the dealer or the round history.
C22_TerminalWhenOver ==
    [][IsOver(game) => /\ game'.scores = game.scores
                       /\ game'.dealer = game.dealer
                       /\ game'.roundHistory = game.roundHistory]_vars

\* C22: a Game that was over after its first round and then completed a second
\* round, which added to a score
C22_ScoredAfterOver ==
    /\ Len(game.roundHistory) = 2
    /\ game.roundHistory[1].MakerPoints >= game.targetScore
    /\ game.roundHistory[2].MakerPoints + game.roundHistory[2].DefendPoints > 0
    /\ game.dealer = 2

\* the teams whose score has reached the target
TeamsAtTarget(g) == {t \in 0..1 : g.scores[t] >= g.targetScore}

\* C23: IsOver() is true iff some team's score is >= the target; at most one
\* team's score is >= the target; Winner() is that team, and -1 while there is none.
C23_UniqueWinner ==
    /\ IsOver(game) <=> TeamsAtTarget(game) # {}
    /\ Cardinality(TeamsAtTarget(game)) <= 1
    /\ IF TeamsAtTarget(game) = {} THEN GameWinner(game) = -1
       ELSE TeamsAtTarget(game) = {GameWinner(game)}

\* C23, for the rounds that end while the Game is not over: an ApplyAction call
\* made while no team is at the target leaves at most one team at the target
C23_OneWinnerPerRound ==
    \A a \in ActionInputs :
        ~IsOver(game) => Cardinality(TeamsAtTarget(ApplyAction(a).g)) <= 1

\* C23: both teams at the target, after a round played when the Game was over
C23_BothAtTarget ==
    /\ TeamsAtTarget(game) = {0, 1}
    /\ Len(game.roundHistory) = 2

\* r is what a deal of the shuffled 24-card deck sd gives and rest the cards left
\* undealt: the i-th seat from the dealer's left holds the i-th three cards from
\* the top of sd and then the i-th two of the cards after those twelve; the next
\* card is turned up and three are left
C24_Dealt(r, sd, rest) ==
    /\ \A i \in 0..3 :
          r.hands[(r.dealer + 1 + i) % NumPlayers]
              = SubSeq(sd, 22 - 3 * i, 24 - 3 * i) \o SubSeq(sd, 11 - 2 * i, 12 - 2 * i)
    /\ \A p \in Seats : Len(r.hands[p]) = 5
    /\ r.turnedCard = sd[4]
    /\ rest = SubSeq(sd, 1, 3)
    /\ LET all == r.hands[0] \o r.hands[1] \o r.hands[2] \o r.hands[3]
                      \o <<r.turnedCard>> \o rest
       IN /\ Len(all) = 24
          /\ {all[i] : i \in 1..24} = StandardCards
          /\ \A i, j \in 1..24 : all[i] = all[j] => i = j
    /\ r.phase = PhaseBidRound1
    /\ r.currentBidder = (r.dealer + 1) % NumPlayers

\* C24: every step that deals (Round.Deal, Game.StartRound) leaves 5 cards in
\* each hand, dealt 3 then 2 clockwise from the dealer's left, one card turned up
\* and 3 undealt, together the 24 distinct cards of the deck, in BidRound1 with
\* the seat left of the dealer to bid.
C24_Deal ==
    [][(/\ IF IsNil(round') THEN FALSE ELSE round'.phase = PhaseBidRound1
        /\ IF IsNil(round) THEN TRUE ELSE round.phase # PhaseBidRound1)
          => \E k \in 1..NumShuffles :
                 C24_Dealt(round', Shuffle(NewStandardDeck, k), deck')]_vars

\* C24 witness: a round just dealt by dealer 2: seat 3 is to bid, each hand has
\* 5 cards and 3 cards are left in the deck
C24_Witness ==
    IF IsNil(round) THEN FALSE
    ELSE /\ round.phase = PhaseBidRound1
         /\ round.dealer = 2
         /\ round.currentBidder = 3
         /\ \A p \in Seats : Len(round.hands[p]) = 5
         /\ Len(deck) = 3

\* the errors by which handleCallTrump, handleDiscard and handlePlayCard report a
\* hand of the wrong size
HandSizeErrors ==
    {"failed to remove card from hand",
     "hand size did not decrease after discard",
     "dealer should have exactly 5 cards after discard",
     "all players must have 5 cards before play phase",
     "player has more than 5 cards - this is a bug"}

\* C25: after a standard deal every hand holds at most 5 cards, except that the
\* dealer's holds exactly 6 exactly while the phase is Discard; all four hands
\* hold 5 when Play begins; and no ApplyAction call returns one of the
\* hand-size errors.
C25_HandSizes ==
    IF IsNil(round) THEN TRUE
    ELSE IF round.phase = PhaseDeal THEN TRUE
    ELSE /\ \A p \in Seats :
               IF p = round.dealer /\ round.phase = PhaseDiscard
               THEN Len(round.hands[p]) = 6
               ELSE Len(round.hands[p]) <= 5
         /\ (/\ round.phase = PhasePlay
             /\ Len(round.trickHistory) = 0
             /\ TrickSize(round.currentTrick) = 0)
                => \A p \in Seats : Len(round.hands[p]) = 5
         /\ \A a \in ActionInputs : ApplyAction(a).err \notin HandSizeErrors

\* C25 witness: Play has just begun after the dealer picked up and discarded;
\* every hand holds 5 cards
C25_Witness ==
    IF IsNil(round) THEN FALSE
    ELSE /\ round.phase = PhasePlay
         /\ round.trump = round.turnedCard.Suit
         /\ ~HandContains(round.hands[round.dealer], round.turnedCard)
         /\ Len(round.trickHistory) = 0
         /\ TrickSize(round.currentTrick) = 0
         /\ \A p \in Seats : Len(round.hands[p]) = 5

\* the plays cards hold at most one play per seat, and lead is the effective
\* suit under trump of the first of them
C26_WellFormed(cards, lead, trump) ==
    /\ \A i, j \in 1..Len(cards) : cards[i].Player = cards[j].Player => i = j
    /\ Len(cards) > 0 => lead = EffectiveSuit(cards[1].Card, trump)

\* C26: the current trick and every trick in the history hold at most one play
\* per seat, and the lead suit is the effective suit, under the round's trump,
\* of the trick's first card; a play to a trick already led leaves its lead
\* suit as it was.
C26_TrickShape ==
    IF IsNil(round) THEN TRUE
    ELSE /\ IF IsNil(round.currentTrick) THEN TRUE
            ELSE C26_WellFormed(round.currentTrick.cards, round.currentTrick.leadSuit,
                                round.trump)
         /\ \A i \in 1..Len(round.trickHistory) :
                C26_WellFormed(round.trickHistory[i].Cards,
                               round.trickHistory[i].LeadSuit, round.trump)
         /\ IF round.phase # PhasePlay THEN TRUE
            ELSE IF TrickSize(round.currentTrick) = 0 THEN TRUE
            ELSE \A a \in ActionInputs :
                    LET res == ApplyAction(a) IN
                    res.err = NoError =>
                       IF Len(res.r.trickHistory) > Len(round.trickHistory)
                       THEN res.r.trickHistory[Len(res.r.trickHistory)].LeadSuit
                                = round.currentTrick.leadSuit
                       ELSE res.r.currentTrick.leadSuit = round.currentTrick.leadSuit

\* C26 witness: a trick led with the left bower, whose lead suit is trump and not
\* the suit printed on the card, and to which another seat has played since
C26_Witness ==
    IF IsNil(round) THEN FALSE
    ELSE IF IsNil(round.currentTrick) THEN FALSE
    ELSE /\ round.phase = PhasePlay
         /\ TrickSize(round.currentTrick) >= 2
         /\ IsLeftBower(round.currentTrick.cards[1].Card, round.trump)
         /\ round.currentTrick.leadSuit = round.trump
         /\ round.currentTrick.leadSuit # round.currentTrick.cards[1].Card.Suit

\* a trick is complete with one play per active seat: 3 when the maker is alone
C27_Complete(t) == TrickSize(t) >= NumPlayers - 1

\* C27: for a completed trick, Result().WasTrumped is true iff the winning card
\* is a trump card and the lead suit is not trump; it is false whenever a trump
\* card was led; and Result().Winner is Winner().
C27_WasTrumped ==
    IF trick = Unused THEN TRUE
    ELSE C27_Complete(trick) =>
            LET res == TrickResult(trick) IN
            /\ res.WasTrumped <=> (/\ IsTrump(WinningCard(trick).card, trick.trump)
                                   /\ LeadSuit(trick) # trick.trump)
            /\ IsTrump(trick.cards[1].Card, trick.trump) => ~res.WasTrumped
            /\ res.Winner = Winner(trick)

\* C27 for the tricks not led with the Joker: the same three statements hold
C27_WasTrumpedNoJokerLed ==
    IF trick = Unused THEN TRUE
    ELSE (C27_Complete(trick) /\ ~IsJoker(trick.cards[1].Card)) =>
            LET res == TrickResult(trick) IN
            /\ res.WasTrumped <=> (/\ IsTrump(WinningCard(trick).card, trick.trump)
                                   /\ LeadSuit(trick) # trick.trump)
            /\ IsTrump(trick.cards[1].Card, trick.trump) => ~res.WasTrumped
            /\ res.Winner = Winner(trick)

\* C27: a completed trick led with the Joker under trump Hearts, which the Joker
\* wins and whose Result() has WasTrumped true
C27_JokerLedWasTrumped ==
    IF trick = Unused THEN FALSE
    ELSE /\ C27_Complete(trick)
         /\ trick.trump = Hearts
         /\ IsJoker(trick.cards[1].Card)
         /\ TrickResult(trick).Winner = trick.cards[1].Player
         /\ TrickResult(trick).WasTrumped

\* the cards and the seats not yet in trick t
C28_FreshCards(t) == {c \in AllCards : \A i \in 1..Len(t.cards) : t.cards[i].Card # c}
C28_FreshSeats(t) == {p \in Seats : \A i \in 1..Len(t.cards) : t.cards[i].Player # p}

\* C28: for every card c not in the trick, CanBeat(c) is true iff Winner() would
\* be p were c played next by a seat p; on an empty trick CanBeat is true of
\* every card.
C28_CanBeatAgrees ==
    IF trick = Unused THEN TRUE
    ELSE /\ \A c \in C28_FreshCards(trick), p \in C28_FreshSeats(trick) :
               CanBeat(trick, c) <=> Winner(TrickPlay(trick, p, c)) = p
         /\ TrickSize(trick) = 0 => \A c \in AllCards : CanBeat(trick, c)

\* C28 witness: a trick under trump Hearts whose second card is winning, which
\* some card not in it can beat and some other cannot
C28_Witness ==
    IF trick = Unused THEN FALSE
    ELSE /\ trick.trump = Hearts
         /\ TrickSize(trick) = 2
         /\ Winner(trick) = trick.cards[2].Player
         /\ \E c, d \in C28_FreshCards(trick) :
               /\ CanBeat(trick, c) /\ ~CanBeat(trick, d)
               /\ \E p \in C28_FreshSeats(trick) :
                     /\ Winner(TrickPlay(trick, p, c)) = p
                     /\ Winner(TrickPlay(trick, p, d)) = trick.cards[2].Player

\* the RoundResults the engine has produced in this state: Result() of a round
\* in RoundEnd and the results in the Game's history
C29_Results ==
    (IF IsNil(round) THEN {}
     ELSE IF round.phase = PhaseRoundEnd THEN {RoundResult(round)} ELSE {})
        \cup (IF game = NoGame THEN {}
              ELSE {game.roundHistory[i] : i \in 1..Len(game.roundHistory)})

\* C29: a RoundResult with WasEuchred true has a maker, awards the defenders 2
\* points and the maker's team none.
C29_EuchredMeansTwo ==
    \A result \in C29_Results :
        result.WasEuchred =>
            /\ result.Makers >= 0
            /\ result.DefendPoints = 2
            /\ result.MakerPoints = 0

\* C29 for the rounds in which a maker named trump: WasEuchred is true iff the
\* maker's team won fewer than 3 tricks, and then the points are 2 and 0
C29_EuchredWithMaker ==
    \A result \in C29_Results :
        result.Makers >= 0 =>
            /\ result.WasEuchred <=> result.MakerTricks < 3
            /\ result.WasEuchred => result.DefendPoints = 2 /\ result.MakerPoints = 0

\* C29: the Result() of a round that all four seats passed twice: no maker, no
\* points, WasEuchred true
C29_MisdealEuchred ==
    IF IsNil(round) THEN FALSE
    ELSE /\ round.phase = PhaseRoundEnd
         /\ round.maker < 0
         /\ RoundResult(round).WasEuchred
         /\ RoundResult(round).Makers = -1
         /\ RoundResult(round).DefendPoints = 0

\* the number of cards in the first n tricks of the history of r
RECURSIVE C30_CardsPlayed(_, _)
C30_CardsPlayed(r, n) ==
    IF n = 0 THEN 0 ELSE C30_CardsPlayed(r, n - 1) + Len(r.trickHistory[n].Cards)

\* C30: when the maker went alone, in Play the maker's partner is never
\* CurrentPlayer() and its PlayCard is rejected; in Play and RoundEnd it is in no
\* trick, has won none and holds its 5 cards; every trick of the history holds 3
\* plays, 15 in all at RoundEnd.
C30_PartnerSitsOut ==
    IF IsNil(round) THEN TRUE
    ELSE IF ~(round.alone /\ round.maker >= 0
                /\ round.phase \in {PhasePlay, PhaseRoundEnd}) THEN TRUE
    ELSE LET p == Partner(round.maker) IN
         /\ round.phase = PhasePlay =>
               /\ CurrentPlayer(round) # p
               /\ \A c \in AllCards : ApplyAction(PlayCardAction(p, c)).err # NoError
               /\ \A i \in 1..TrickSize(round.currentTrick) :
                      round.currentTrick.cards[i].Player # p
         /\ \A i \in 1..Len(round.trickHistory) :
               /\ Len(round.trickHistory[i].Cards) = 3
               /\ round.trickHistory[i].Winner # p
               /\ \A j \in 1..3 : round.trickHistory[i].Cards[j].Player # p
         /\ round.tricksWon[p] = 0
         /\ Len(round.hands[p]) = 5
         /\ round.phase = PhaseRoundEnd =>
               /\ Len(round.trickHistory) = 5
               /\ C30_CardsPlayed(round, 5) = 15

\* C30 witness: a round ended in which the maker was alone and its partner, the
\* seat left of the dealer, still holds 5 cards after five tricks of 3 plays
C30_Witness ==
    IF IsNil(round) THEN FALSE
    ELSE /\ round.phase = PhaseRoundEnd
         /\ round.alone /\ round.maker >= 0
         /\ Partner(round.maker) = NextPlayer(round.dealer, NumPlayers)
         /\ Len(round.hands[Partner(round.maker)]) = 5
         /\ Len(round.trickHistory) = 5
         /\ C30_CardsPlayed(round, 5) = 15

\* what a caller observes of a trick: Size(), LeadSuit() and Trump()
C31_Observed(t) == <<TrickSize(t), LeadSuit(t), t.trump>>

\* C31: an empty trick has lead suit NoSuit, whether made by NewTrick or emptied
\* by Clear(), and Clear() gives the observable state of a new trick of the same
\* trump.
C31_EmptyHasNoLead ==
    IF trick = Unused THEN TRUE
    ELSE /\ TrickSize(trick) = 0 => LeadSuit(trick) = NoSuit
         /\ C31_Observed(TrickClear(trick)) = C31_Observed(NewTrick(trick.trump))

\* C31 for Clear() alone: it leaves size 0, lead suit NoSuit and the trump it had
C31_ClearedHasNoLead ==
    IF trick = Unused THEN TRUE
    ELSE C31_Observed(TrickClear(trick)) = <<0, NoSuit, trick.trump>>

\* C31: a trick of trump Hearts to which nothing has been played since NewTrick:
\* its LeadSuit() is Clubs
C31_FreshLeadIsClubs ==
    IF trick = Unused THEN FALSE
    ELSE /\ trick = NewTrick(Hearts)
         /\ LeadSuit(trick) = Clubs
         /\ LeadSuit(TrickClear(trick)) = NoSuit

(***************************************************************************)
(* LiveSpec: Spec with the scheduling the application gives the engine:    *)
(* while a round is in progress the seat on turn (the human or an AI       *)
(* player) is asked until it submits one of LegalActions().  The bidder    *)
(* and the discarding dealer are under weak fairness.  For the seat on     *)
(* turn in Play the same weak fairness is written out as "infinitely often *)
(* not in Play, or infinitely often a legal play": TLC evaluates ENABLED   *)
(* without caching, which handlePlayCard's nesting makes too slow, and     *)
(* C32_Progress checks in every state that a legal play is enabled in Play.*)
(***************************************************************************)
\* the current player submits one of LegalActions() in one of the phases
SubmitLegal(phases) ==
    /\ IF IsNil(round) THEN FALSE ELSE round.phase \in phases
    /\ \E i \in 1..Len(RoundLegalActions(round)) :
           Apply(RoundLegalActions(round)[i])
    /\ Untouched

SubmitBid == SubmitLegal({PhaseBidRound1, PhaseBidRound2})
SubmitDiscard == SubmitLegal({PhaseDiscard})
SubmitPlay == SubmitLegal({PhasePlay})

InPlay == IF IsNil(round) THEN FALSE ELSE round.phase = PhasePlay

LiveSpec ==
    /\ Spec
    /\ WF_vars(SubmitBid)
    /\ WF_vars(SubmitDiscard)
    /\ ([]<>(~InPlay) \/ []<><<SubmitPlay>>_vars)

\* the accepted bidding actions, discards and card plays of the round r so far
C32_Bids(r) ==
    IF r.phase \in {PhaseBidRound1, PhaseBidRound2}
    THEN (r.bidRound - 1) * 4 + ((r.currentBidder - r.dealer - 1 + NumPlayers) % NumPlayers)
    ELSE IF r.maker < 0 THEN 8
    ELSE (r.bidRound - 1) * 4 + ((r.maker - r.dealer - 1 + NumPlayers) % NumPlayers) + 1

C32_Discards(r) ==
    IF r.maker >= 0 /\ r.bidRound = 1 /\ r.phase \in {PhasePlay, PhaseRoundEnd}
    THEN 1 ELSE 0

RECURSIVE C32_HistoryPlays(_, _)
C32_HistoryPlays(r, n) ==
    IF n = 0 THEN 0 ELSE C32_HistoryPlays(r, n - 1) + Len(r.trickHistory[n].Cards)

C32_Plays(r) ==
    C32_HistoryPlays(r, Len(r.trickHistory))
        + (IF r.phase = PhasePlay THEN TrickSize(r.currentTrick) ELSE 0)

C32_Accepted(r) == C32_Bids(r) + C32_Discards(r) + C32_Plays(r)

C32_Active ==
    IF IsNil(round) THEN FALSE
    ELSE round.phase \in {PhaseBidRound1, PhaseBidRound2, PhaseDiscard, PhasePlay}

C32_Ended == IF IsNil(round) THEN FALSE ELSE round.phase = PhaseRoundEnd

\* in a dealt round: every accepted action adds one to the count of accepted
\* actions, which is 0 after the deal and at most 8 bids + 1 discard + 20 plays;
\* a round ended with a maker has 20 plays, 15 when the maker was alone; and
\* while the round is in progress some action of LegalActions() is accepted
C32_Progress ==
    IF IsNil(round) THEN TRUE
    ELSE IF round.phase = PhaseDeal THEN TRUE
    ELSE /\ C32_Bids(round) <= 8
         /\ C32_Discards(round) <= 1
         /\ C32_Plays(round) <= 20
         /\ C32_Accepted(round) <= 28
         /\ (round.phase = PhaseBidRound1 /\ PassesMade(round) = 0) =>
                C32_Accepted(round) = 0
         /\ (round.phase = PhaseRoundEnd /\ round.maker >= 0) =>
                C32_Plays(round) = (IF round.alone THEN 15 ELSE 20)
         /\ \A a \in ActionInputs :
                LET res == ApplyAction(a) IN
                res.err = NoError => C32_Accepted(res.r) = C32_Accepted(round) + 1
         /\ C32_Active =>
                \E i \in 1..Len(RoundLegalActions(round)) :
                    ApplyAction(RoundLegalActions(round)[i]).err = NoError

\* C32: every accepted action makes strict progress, RoundEnd is reached after at
\* most 28 accepted actions (at most 8 bids, 1 discard and 20 plays, 15 when
\* alone), and when the current player keeps submitting legal actions a round
\* in progress reaches RoundEnd.
C32_Terminates == []C32_Progress /\ (C32_Active ~> C32_Ended)

\* C32 witness: a round ended after 28 accepted actions: 7 passes, a call in the
\* second bidding round and 20 plays
C32_Witness ==
    IF IsNil(round) THEN FALSE
    ELSE /\ round.phase = PhaseRoundEnd
         /\ round.maker >= 0 /\ ~round.alone
         /\ C32_Bids(round) = 8
         /\ C32_Plays(round) = 20
         /\ C32_Accepted(round) = 28

\* C33: in BidRound1, BidRound2, Discard and Play, CurrentPlayer() is a seat in
\* 0..3 and LegalActions() is non-empty, and in Play the current player is not
\* sitting out and holds a card; CurrentPlayer() is -1 and LegalActions() is
\* empty exactly in Deal and RoundEnd.
C33_NoDeadlock ==
    IF IsNil(round) THEN TRUE
    ELSE LET cp == CurrentPlayer(round)
             n == Len(RoundLegalActions(round)) IN
         /\ C32_Active =>
                /\ cp \in 0..(NumPlayers - 1)
                /\ n > 0
         /\ round.phase = PhasePlay =>
                IF cp \in 0..(NumPlayers - 1)
                THEN /\ ~isSittingOut(round, cp)
                     /\ Len(round.hands[cp]) >= 1
                ELSE FALSE
         /\ (cp = -1) <=> (round.phase \in {PhaseDeal, PhaseRoundEnd})
         /\ (n = 0) <=> (round.phase \in {PhaseDeal, PhaseRoundEnd})

\* C33 witness: a lone maker's round in Play, the seat after the partner on turn
C33_Witness ==
    IF IsNil(round) THEN FALSE
    ELSE /\ round.phase = PhasePlay
         /\ round.alone
         /\ TrickSize(round.currentTrick) >= 1
         /\ isSittingOut(round, (CurrentPlayer(round) + NumPlayers - 1) % NumPlayers)
         /\ Len(RoundLegalActions(round)) >= 1

\* C33 witness: a round still in the Deal phase, nobody on turn
C33_DealWitness ==
    IF IsNil(round) THEN FALSE
    ELSE round.phase = PhaseDeal /\ CurrentPlayer(round) = -1

\* a maker is recorded on the round r
C34_MakerRecorded(r) ==
    \/ r.phase \in {PhaseDiscard, PhasePlay}
    \/ r.phase = PhaseRoundEnd /\ r.maker >= 0

\* C34: whenever a maker is recorded, trump is one of Clubs, Diamonds, Hearts,
\* Spades and differs from the turned card's suit iff it was named in BidRound2;
\* no accepted OrderUp or CallTrump, whatever its suit, leaves trump = NoSuit.
C34_RealTrump ==
    IF IsNil(round) THEN TRUE
    ELSE /\ C34_MakerRecorded(round) =>
                /\ round.trump \in Suits
                /\ (round.trump # round.turnedCard.Suit) <=> (round.bidRound = 2)
         /\ \A a \in ActionInputs :
                LET res == ApplyAction(a) IN
                (/\ a.type \in {ActionOrderUp, ActionCallTrump}
                 /\ res.err = NoError) => res.r.trump # NoSuit

\* C34, apart from a CallTrump that names NoSuit: a recorded maker's trump is
\* NoSuit or one of the four suits, differs from the turned card's suit iff it
\* was named in BidRound2, and every other accepted bid leaves a real trump
C34_RealTrumpButNoSuit ==
    IF IsNil(round) THEN TRUE
    ELSE /\ C34_MakerRecorded(round) =>
                /\ round.trump \in AllSuits
                /\ round.bidRound = 1 => round.trump \in Suits
                /\ (round.trump # round.turnedCard.Suit) <=> (round.bidRound = 2)
         /\ \A a \in ActionInputs :
                LET res == ApplyAction(a) IN
                (/\ a.type \in {ActionOrderUp, ActionCallTrump}
                 /\ res.err = NoError
                 /\ ~(a.type = ActionCallTrump /\ a.Suit = NoSuit)) =>
                        res.r.trump \in Suits

\* C34: the round in Play with a maker and trump NoSuit, cards already played
C34_PlayWithoutTrump ==
    IF IsNil(round) THEN FALSE
    ELSE /\ round.phase = PhasePlay
         /\ round.maker >= 0
         /\ round.trump = NoSuit
         /\ round.turnedCard.Suit \in Suits
         /\ TrickSize(round.currentTrick) >= 1

\* the cards of the current trick of the round r and of its trick history
C35_CurrentCards(r) ==
    IF IsNil(r.currentTrick) THEN <<>>
    ELSE [i \in 1..TrickSize(r.currentTrick) |-> r.currentTrick.cards[i].Card]

RECURSIVE C35_HistoryCards(_, _)
C35_HistoryCards(r, n) ==
    IF n = 0 THEN <<>>
    ELSE C35_HistoryCards(r, n - 1)
            \o [i \in 1..Len(r.trickHistory[n].Cards) |-> r.trickHistory[n].Cards[i].Card]

C35_HandCards(r) == r.hands[0] \o r.hands[1] \o r.hands[2] \o r.hands[3]

C35_Distinct(s) == \A i, j \in 1..Len(s) : i < j => s[i] # s[j]

\* the cards on the table of the round r: in its current trick or its history
C35_Table(r) ==
    CardsIn(C35_CurrentCards(r)) \cup CardsIn(C35_HistoryCards(r, Len(r.trickHistory)))

\* what one ApplyAction call with the action a does to the cards of the round:
\* a card leaves a hand only by an accepted Discard or PlayCard of that card by
\* its holder; an accepted PlayCard moves its card from the acting seat's hand
\* to the table and changes no other hand; the only card that enters a hand is
\* the turned card, picked up by the dealer in BidRound1
C35_Moves(r, a, res) ==
    /\ \A p \in Seats :
          \A c \in CardsIn(r.hands[p]) \ CardsIn(res.r.hands[p]) :
              /\ res.err = NoError
              /\ a.type \in {ActionDiscard, ActionPlayCard}
              /\ a.PlayerIdx = p
              /\ a.Card = c
    /\ (res.err = NoError /\ a.type = ActionPlayCard) =>
          /\ HandContains(r.hands[a.PlayerIdx], a.Card)
          /\ res.r.hands[a.PlayerIdx] =
                SelectSeq(r.hands[a.PlayerIdx], LAMBDA c : c # a.Card)
          /\ \A p \in Seats \ {a.PlayerIdx} : res.r.hands[p] = r.hands[p]
          /\ C35_Table(res.r) = C35_Table(r) \cup {a.Card}
          /\ a.Card \notin C35_Table(r)
    /\ \A p \in Seats :
          \A c \in CardsIn(res.r.hands[p]) \ CardsIn(r.hands[p]) :
              /\ r.phase = PhaseBidRound1
              /\ a.type = ActionOrderUp
              /\ p = r.dealer
              /\ c = r.turnedCard

\* C35: in every reachable state the cards of the four hands, the current trick
\* and the trick history are pairwise distinct cards of the 24-card deck; a card
\* leaves a hand only by an accepted Discard or PlayCard of that card by its
\* holder; an accepted PlayCard moves one card from the acting seat's hand to
\* the trick and changes no other hand; no played or discarded card re-enters
\* a hand.
C35_Conserved ==
    IF IsNil(round) THEN TRUE
    ELSE LET all == C35_HandCards(round) \o C35_CurrentCards(round)
                        \o C35_HistoryCards(round, Len(round.trickHistory)) IN
         /\ C35_Distinct(all)
         /\ CardsIn(all) \subseteq StandardCards
         /\ \A a \in ActionInputs : C35_Moves(round, a, ApplyAction(a))

\* C35, with the current trick left out in RoundEnd, where it still holds the
\* cards of the last trick of the history
C35_ConservedUntilRoundEnd ==
    IF IsNil(round) THEN TRUE
    ELSE LET all == C35_HandCards(round)
                        \o (IF round.phase = PhaseRoundEnd THEN <<>>
                            ELSE C35_CurrentCards(round))
                        \o C35_HistoryCards(round, Len(round.trickHistory)) IN
         /\ C35_Distinct(all)
         /\ CardsIn(all) \subseteq StandardCards
         /\ \A a \in ActionInputs : C35_Moves(round, a, ApplyAction(a))

\* C35: a round ended by its fifth trick, whose cards are both in the current
\* trick and in the last entry of the trick history
C35_LastTrickTwice ==
    IF IsNil(round) THEN FALSE
    ELSE /\ round.phase = PhaseRoundEnd
         /\ Len(round.trickHistory) = 5
         /\ TrickSize(round.currentTrick) = 4
         /\ round.currentTrick.cards = round.trickHistory[5].Cards

\* C36: once an OrderUp or CallTrump is accepted, trump, maker, maker team
\* (always maker mod 2) and the alone flag are unchanged by every later action,
\* and every trick created in the round carries the round's trump; the dealer
\* and the turned card never change after Deal; Pass changes nothing but the
\* current bidder, bid round and phase.
C36_BidIsFixed ==
    IF IsNil(round) THEN TRUE
    ELSE IF round.phase = PhaseDeal THEN TRUE
    ELSE /\ round.maker >= 0 => round.makerTeam = round.maker % 2
         /\ ~IsNil(round.currentTrick) => round.currentTrick.trump = round.trump
         /\ \A k \in 1..Len(round.trickHistory) :
                round.trickHistory[k].Trump = round.trump
         /\ \A a \in ActionInputs :
                LET res == ApplyAction(a) IN
                /\ res.r.dealer = round.dealer
                /\ res.r.turnedCard = round.turnedCard
                /\ round.maker >= 0 =>
                      /\ res.r.trump = round.trump
                      /\ res.r.maker = round.maker
                      /\ res.r.makerTeam = round.makerTeam
                      /\ res.r.alone = round.alone
                /\ a.type = ActionPass =>
                      [res.r EXCEPT !.currentBidder = round.currentBidder,
                                    !.bidRound = round.bidRound,
                                    !.phase = round.phase] = round

\* C36 witness: bidding was resolved alone, a trick is in the history and a
\* second trick is under way
C36_Witness ==
    IF IsNil(round) THEN FALSE
    ELSE /\ round.phase = PhasePlay
         /\ round.maker >= 0 /\ round.alone
         /\ Len(round.trickHistory) >= 1
         /\ TrickSize(round.currentTrick) >= 1
         /\ round.currentTrick.trump = round.trump
         /\ \E i \in 1..Len(RoundLegalActions(round)) :
                ApplyAction(RoundLegalActions(round)[i]).err = NoError

\* the points the first n results of the history h award to team t
RECURSIVE C37_Awarded(_, _, _)
C37_Awarded(h, n, t) ==
    IF n = 0 THEN 0 ELSE C37_Awarded(h, n - 1, t) + PointsFor(h[n], t)

\* the Game's books agree with its history, and a completed round takes no
\* further action
C37_Books ==
    IF game = NoGame THEN TRUE
    ELSE /\ game.dealer = Len(game.roundHistory) % NumPlayers
         /\ \A t \in 0..1 :
                game.scores[t] = C37_Awarded(game.roundHistory, Len(game.roundHistory), t)
         /\ \A a \in ActionInputs :
                LET res == ApplyAction(a) IN
                /\ \A t \in 0..1 : res.g.scores[t] >= game.scores[t]
                /\ (IF IsNil(round) THEN FALSE ELSE RoundIsComplete(round)) =>
                      /\ res.err # NoError
                      /\ res.g = game
                      /\ res.r = round

C37_ScoresKept ==
    IF game = NoGame \/ game' = NoGame THEN TRUE
    ELSE \A t \in 0..1 : game'.scores[t] >= game.scores[t]

\* C37: in every reachable Game state the dealer is (length of the round
\* history) mod 4 and each team's score is the sum of the points the results of
\* the history award it; actions submitted to a completed round are rejected
\* and change neither scores, dealer nor history; scores never decrease.
C37_ScoredOnce == []C37_Books /\ [][C37_ScoresKept]_vars

\* C37 witness: two rounds were completed and both scored, the second round
\* still stands completed and the dealer has moved on twice
C37_Witness ==
    IF game = NoGame \/ IsNil(round) THEN FALSE
    ELSE /\ Len(game.roundHistory) = 2
         /\ \A k \in 1..2 :
                game.roundHistory[k].MakerPoints + game.roundHistory[k].DefendPoints > 0
         /\ RoundIsComplete(round)
         /\ game.dealer = 2
         /\ game.scores[0] + game.scores[1] >= 2
         /\ ApplyAction(PassAction(CurrentPlayer(round))).err # NoError

\* C38: for every hand without duplicate cards, every trick and every card c,
\* ValidatePlay(hand, c, trick) returns no error iff c is in LegalPlays(hand,
\* trick); a PlayCard by the current player is accepted iff its card is in
\* LegalPlays of that player's hand and the current trick.
C38_PlaysAgree ==
    IF IsNil(round) THEN TRUE
    ELSE IF round.phase # PhasePlay THEN TRUE
    ELSE /\ \A p \in Seats :
              C35_Distinct(round.hands[p]) =>
                  \A c \in AllCards :
                      (ValidatePlay(round.hands[p], c, round.currentTrick) = NoError)
                          <=> c \in CardsIn(LegalPlays(round.hands[p], round.currentTrick))
         /\ LET cp == CurrentPlayer(round) IN
            \A c \in AllCards :
                (ApplyAction(PlayCardAction(cp, c)).err = NoError)
                    <=> c \in CardsIn(LegalPlays(round.hands[cp], round.currentTrick))

\* C38 witness: the seat on turn holds a card of the suit led and a card of
\* another suit, which ValidatePlay refuses and LegalPlays leaves out
C38_Witness ==
    IF IsNil(round) THEN FALSE
    ELSE /\ round.phase = PhasePlay
         /\ TrickSize(round.currentTrick) >= 1
         /\ LET h == round.hands[CurrentPlayer(round)]
                legal == CardsIn(LegalPlays(h, round.currentTrick)) IN
            /\ legal # {}
            /\ \E i \in 1..Len(h) :
                  /\ h[i] \notin legal
                  /\ ValidatePlay(h, h[i], round.currentTrick) = ErrMustFollowSuit
                  /\ ApplyAction(PlayCardAction(CurrentPlayer(round), h[i])).err
                        = ErrMustFollowSuit

(***************************************************************************)
(* The standard variant: Standard.ScoreRound                               *)
(***************************************************************************)
ScoreRound(result) ==
    IF result.WasEuchred
    THEN IF result.Makers = 0
         THEN [Team0Delta |-> 0, Team1Delta |-> 2]
         ELSE [Team0Delta |-> 2, Team1Delta |-> 0]
    ELSE IF result.Makers = 0
         THEN [Team0Delta |-> result.MakerPoints, Team1Delta |-> 0]
         ELSE [Team0Delta |-> 0, Team1Delta |-> result.MakerPoints]

\* what Game.endRound adds to the two team scores for the result
C39_EngineDeltas(result) ==
    LET g == NewGame([NumPlayers |-> NumPlayers, TargetScore |-> ConfigTargetScore,
                      DeckConfig |-> "StandardDeckConfig"])
        s == endRoundWith(g, result).scores
    IN [Team0Delta |-> s[0] - g.scores[0], Team1Delta |-> s[1] - g.scores[1]]

\* C39: for every RoundResult that Round.Result() produces at RoundEnd (euchre,
\* make, march, lone march and misdeal), Standard.ScoreRound(result) is exactly
\* the per-team deltas that Game.endRound adds to the two team scores.
C39_ScoringAgrees ==
    IF IsNil(round) THEN TRUE
    ELSE round.phase = PhaseRoundEnd =>
            ScoreRound(RoundResult(round)) = C39_EngineDeltas(RoundResult(round))

\* C39 for the rounds that had a maker
C39_AgreesWithMaker ==
    IF IsNil(round) THEN TRUE
    ELSE (round.phase = PhaseRoundEnd /\ round.maker >= 0) =>
            ScoreRound(RoundResult(round)) = C39_EngineDeltas(RoundResult(round))

\* C39: after a misdeal the variant scores 2 for team 0, the engine nothing
C39_MisdealScoresTwo ==
    IF IsNil(round) THEN FALSE
    ELSE /\ round.phase = PhaseRoundEnd
         /\ round.maker < 0
         /\ ScoreRound(RoundResult(round)) = [Team0Delta |-> 2, Team1Delta |-> 0]
         /\ C39_EngineDeltas(RoundResult(round)) = [Team0Delta |-> 0, Team1Delta |-> 0]

====
